---- MODULE Spec2Model ----
(***************************************************************************)
(* Herald core service (src/python/herald/core.py): the correlation        *)
(* engine (send / post / forget / garbage collection / shutdown), the      *)
(* handling of received messages (handle_message, _handle_error,           *)
(* _handle_directory_message, __notify) and the transport multiplex        *)
(* (fire, reply, _fire_reply).                                             *)
(*                                                                         *)
(* Threads are modelled at the granularity at which the Python code can    *)
(* be interleaved: a dict pop/insert is one step; a blocking send is       *)
(* split at its wait; __notify is split between the lookup of the          *)
(* _WaitingPost (done under the post lock) and the call of its callback    *)
(* (done after the lock is released).                                      *)
(***************************************************************************)
EXTENDS Integers, Sequences, FiniteSets, TLC

\* ---------------------------------------------------------------- bounds

\* The clock runs from 0 to MaxTime.
MaxTime == 2
\* The log of callback/errback invocations of a post keeps MaxCalls entries.
MaxCalls == 2
\* User code that an engine method calls may call the engine again: a thread
\* executes at most MaxDepth nested engine methods.
MaxDepth == 2
\* A peer publishes while the broker has fewer than MaxPending deliveries
\* still to make.
MaxPending == 1
\* The exchange of two engines is followed up to MaxSent transmissions.
MaxSent == 6
\* pelix.threadpool.ThreadPool(5): the number of workers of the pool.
PoolSize == 5

\* ------------------------------------------------------------ value sets

\* UIDs of the messages the local engine sends or posts.
UIDs == {"u1", "u2"}
\* UIDs of the messages received from transports.
MsgIds == {"r1", "r2"}
\* Remote peers and the access ids under which transports are bound.
Peers == {"B", "C"}
AccessIds == {"mqtt", "other"}
\* Message listeners and the file-name patterns they may declare.
Listeners == {"l1"}
Patterns == {<<"demo", "*">>, <<"herald", "directory", "*">>}

\* The listener services and the filters they declare when several
\* listeners with overlapping filters are followed.
Services == {"l1", "l2"}
Filters == {<<"demo", "*">>, <<"demo", "echo">>, <<"nobody", "*">>}

\* The threads that call the engine: callers of its API, the threads of the
\* transports, the GC timer and the workers of the pool.
Threads == {"t1", "t2"}
\* threading.Lock() objects of the engine
LockNames == {"__listeners_lock", "__post_lock"}

\* The uid of the local peer, and the peers that connect to the MQTT broker.
LocalUid == "A"
Clients == {LocalUid} \cup Peers
\* Application ids and group names, as the list of their parts between '/'.
AppIds == {<<"x">>, <<"y">>, <<"+">>}
GroupNames == {<<"g">>}
\* The Peer bean of the local peer.
LocalPeer == [app_id |-> <<"x">>, groups |-> {<<"g">>}]
\* The report of Messenger._on_message before any message was received.
NoRoute == [client |-> "", publisher |-> "", to |-> "none", probed |-> FALSE,
            apps |-> <<>>]

\* An optional value is a sequence of length 0 (None) or 1.
None == <<>>
Some(x) == <<x>>
IsNone(o) == o = <<>>

\* Subjects, as the list message.subject.split('/') yields.
DemoEcho == <<"demo", "echo">>
NobodyHome == <<"nobody", "home">>
ErrNoListener == <<"herald", "error", "no-listener">>
ErrShort == <<"herald", "error">>
DirNewcomer == <<"herald", "directory", "newcomer">>
DirWelcome == <<"herald", "directory", "welcome">>
DirBye == <<"herald", "directory", "bye">>
Subjects == {DemoEcho, NobodyHome, ErrNoListener, ErrShort,
             DirNewcomer, DirWelcome, DirBye}

\* The subject of the message the local engine sends under each uid.
SubjectOf(u) == IF u = "u1" THEN DemoEcho ELSE NobodyHome

\* Peer.get_accesses(): the access ids of a peer, in insertion order.
get_accesses(p) ==
  CASE p = "B" -> <<"mqtt">>
    [] p = "C" -> <<"other", "mqtt">>
    [] p = "D" -> <<>>
    [] p = "E" -> <<"other">>
    [] OTHER -> <<"mqtt", "other">>

\* The peers that groups are made of, and the largest group.
GroupPeers == {"B", "C", "D", "E", "F"}
MaxGroup == 3

\* The order of the access ids as strings: 'mqtt' < 'other'.
AccessRank(access) == IF access = "mqtt" THEN 1 ELSE 2

\* tuple(part for part in message.subject.split('/') if part)
Parts(subject) == SelectSeq(subject, LAMBDA part : part # "")

\* re.compile(fnmatch.translate(pattern)).match(subject): a pattern is a
\* list of literal parts, optionally ended by "*", which matches any rest.
RECURSIVE match(_, _)
match(pattern, subject) ==
  IF pattern = <<>> THEN subject = <<>>
  ELSE IF Head(pattern) = "*" /\ Len(pattern) = 1 THEN subject # <<>>
  ELSE /\ subject # <<>>
       /\ Head(pattern) = Head(subject)
       /\ match(Tail(pattern), Tail(subject))

VARIABLES
  engine,          \* life cycle: "new", "valid", "inv_events", "inv_posts",
                   \*   "inv_clear", "stopped"
  now,             \* time.time()
  transports,      \* _transports: the bound access ids
  controller,      \* _controller
  directory,       \* the peers the directory knows
  listeners,       \* bound listeners -> declared filters (service property)
  msg_listeners,   \* __msg_listeners: pattern -> set of listeners
  waiting_events,  \* __waiting_events: the uids with a sync-waiter
  cell,            \* uid -> the EventData created by send(uid)
  waiting_posts,   \* __waiting_posts: the uids with an async-waiter
  wpost,           \* uid -> the _WaitingPost created by post(uid)
  pc,              \* uid -> position of the send/post call using it
  outcome,         \* uid -> what the send/post call returned or raised
  calls,           \* uid -> log of callback/errback invocations
  fired,           \* uids of messages a transport accepted
  inv_snapshot,    \* _invalidate: tuple(self.__waiting_events.values())
  inflight,        \* handle_message calls suspended between the lookup of
                   \*   the _WaitingPost and the call of its callback
  gc_removed,      \* uids whose async-waiter a GC sweep deleted
  resolver,        \* uid -> what last set the EventData of send(uid)
  woke,            \* uid -> what had last set it when the wait of send ended
  api,             \* the last call of fire, fire_group, reply or forget whose
                   \*   result is observed: its arguments and what it gave
  pool,            \* __pool, the thread pool that calls the listeners
  gc_timer,        \* __gc_timer, the LoopTimer of the garbage collector
  handled,         \* report of the last completed handle_message call
  holder,          \* __listeners_lock, __post_lock: the thread that holds it
  stack,           \* thread -> the engine methods it is executing, the
                   \*   innermost last, each with the step it has reached
  messenger,       \* MQTT client of each peer -> the Peer bean behind it
                   \*   (None while it is not connected to the broker)
  broker,          \* publications the broker has still to deliver
  routed,          \* report of the last Messenger._on_message call
  pool_queue,      \* the tasks enqueued in __pool, the oldest first
  pool_workers,    \* the tasks the workers of __pool have taken, each
                   \*   "taken" from the queue or "running"
  handed,          \* uids of the messages a transport gave to
                   \*   handle_message, in the order of the calls
  started,         \* the tasks for which herald_message of the listener
                   \*   has begun, in the order in which they began
  conn,            \* what the MQTT client of the local peer was asked to
                   \*   do since MqttTransport._validate, in order
  transmitted      \* number of messages the transports have transmitted

vars == <<engine, now, transports, controller, directory, listeners,
          msg_listeners, waiting_events, cell, waiting_posts, wpost, pc,
          outcome, calls, fired, inv_snapshot, inflight, gc_removed, resolver,
          woke, api, pool, gc_timer, handled, holder, stack, messenger,
          broker, routed, pool_queue, pool_workers, handed, started, conn,
          transmitted>>

\* pelix.utilities.EventData(): event not set, no data, no exception.
NewEventData == [isSet |-> FALSE, data |-> None, exception |-> None]
\* EventData.set(data)
EventSet(data) == [isSet |-> TRUE, data |-> data, exception |-> None]
\* EventData.raise_exception(exception)
EventRaise(exception) == [isSet |-> TRUE, data |-> None, exception |-> exception]

NoPost == [errback |-> FALSE, deadline |-> None, forget_on_first |-> FALSE]
NoCall == [op |-> "none"]
NoReport == [subject |-> <<>>, result |-> "none", notify |-> FALSE,
             enqueued |-> {}, replies |-> <<>>]

Init ==
  /\ engine = "new"
  /\ now = 0
  /\ transports = {}
  /\ controller = FALSE
  /\ directory = {}
  /\ listeners = [l \in {} |-> {}]
  /\ msg_listeners = [p \in {} |-> {}]
  /\ waiting_events = {}
  /\ cell = [u \in UIDs |-> NewEventData]
  /\ waiting_posts = {}
  /\ wpost = [u \in UIDs |-> NoPost]
  /\ pc = [u \in UIDs |-> "unused"]
  /\ outcome = [u \in UIDs |-> None]
  /\ calls = [u \in UIDs |-> <<>>]
  /\ fired = {}
  /\ inv_snapshot = {}
  /\ inflight = {}
  /\ gc_removed = {}
  /\ resolver = [u \in UIDs |-> ""]
  /\ woke = [u \in UIDs |-> ""]
  /\ api = NoCall
  /\ pool = "created"
  /\ gc_timer = "none"
  /\ handled = NoReport
  /\ holder = [l \in LockNames |-> None]
  /\ stack = [t \in Threads |-> <<>>]
  /\ messenger = [c \in Clients |-> None]
  /\ broker = {}
  /\ routed = NoRoute
  /\ pool_queue = <<>>
  /\ pool_workers = {}
  /\ handed = <<>>
  /\ started = <<>>
  /\ conn = <<>>
  /\ transmitted = 0

\* ------------------------------------------------- transport multiplex

NoTransport == <<"NoTransport">>
KeyError == <<"KeyError">>
TypeError == <<"TypeError">>
NoListener(uid, subject) == <<"NoListener", uid, subject>>
ForgotMessage(uid) == <<"ForgotMessage", uid>>
HeraldTimeout(text) == <<"HeraldTimeout", text>>
StopsListening == HeraldTimeout("Herald stops listening to messages")
TimeoutReached == HeraldTimeout("Timeout reached before receiving a reply")

\* An error of a transport that is not InvalidPeerAccess.
TransportError == <<"TransportError">>

\* Fault injection: a loop that gives up at the first bound transport that
\* raises InvalidPeerAccess.
TryAccessesOnce(accesses, trs, rejecting, failing, tried) ==
  LET bound == SelectSeq(accesses, LAMBDA a : a \in trs)
  IN IF bound = <<>> \/ Head(bound) \in rejecting
     THEN [via |-> None, exception |-> NoTransport, tried |-> tried]
     ELSE [via |-> Some(Head(bound)), exception |-> None,
           tried |-> Append(tried, Head(bound))]

\* Fault injection: a loop without break, which calls every bound transport
\* and keeps the first that accepted.
TryAccessesNoBreak(accesses, trs, rejecting, failing, tried) ==
  LET bound == SelectSeq(accesses, LAMBDA a : a \in trs)
      accepting == SelectSeq(bound, LAMBDA a : a \notin rejecting)
  IN IF accepting = <<>>
     THEN [via |-> None, exception |-> NoTransport, tried |-> tried \o bound]
     ELSE [via |-> Some(Head(accepting)), exception |-> None,
           tried |-> tried \o bound]

\* The loop of fire over the accesses of the peer: the first access with a
\* bound transport whose fire does not raise InvalidPeerAccess.
\* `rejecting`: the access ids whose transport raises InvalidPeerAccess,
\* `failing`: those whose transport raises another error, which no except
\* clause of the loop catches. `tried`: the accesses whose transport was
\* called.
RECURSIVE TryAccesses(_, _, _, _, _)
TryAccesses(accesses, trs, rejecting, failing, tried) ==
  IF accesses = <<>>
  THEN [via |-> None, exception |-> NoTransport, tried |-> tried]
  ELSE LET access == Head(accesses)
       IN IF access \notin trs
          THEN TryAccesses(Tail(accesses), trs, rejecting, failing, tried)
          ELSE IF access \in failing
          THEN [via |-> None, exception |-> TransportError,
                tried |-> Append(tried, access)]
          ELSE IF access \in rejecting
          THEN TryAccesses(Tail(accesses), trs, rejecting, failing,
                           Append(tried, access))
          ELSE [via |-> Some(access), exception |-> None,
                tried |-> Append(tried, access)]

\* Herald.fire(target, message), under directory `dir` and transports `trs`:
\* the exception raised (None: message.uid is returned), the access used
\* and the accesses tried.
fire(dir, trs, target, rejecting, failing) ==
  IF target \notin dir
  THEN [via |-> None, exception |-> KeyError, tried |-> <<>>]
  ELSE IF trs = {}
  THEN [via |-> None, exception |-> NoTransport, tried |-> <<>>]
  ELSE TryAccesses(get_accesses(target), trs, rejecting, failing, <<>>)

\* Herald._fire_reply(message, reply_to)
fire_reply(trs, reply_to, rejecting, failing) ==
  IF reply_to.access \notin trs THEN [exception |-> NoTransport, via |-> None]
  ELSE IF reply_to.access \in failing
  THEN [exception |-> TransportError, via |-> None]
  ELSE IF reply_to.access \in rejecting
  THEN [exception |-> NoTransport, via |-> None]
  ELSE [exception |-> None, via |-> Some(reply_to.access)]

\* Fault injection: a reply that lets the KeyError of the directory out.
replyRawKeyError(dir, trs, message, content, subject, rejecting1, rejecting2, failing) ==
  LET subj == IF subject = <<>> THEN message.subject ELSE subject
      first == fire_reply(trs, message, rejecting1, failing)
      second == fire(dir, trs, message.sender, rejecting2, failing)
  IN IF first.exception # NoTransport
     THEN [subject |-> subj, content |-> content, via |-> first.via,
           parent |-> IF IsNone(first.via) THEN None ELSE Some(message.uid),
           fallback |-> FALSE, exception |-> first.exception]
     ELSE [subject |-> subj, content |-> content, via |-> second.via,
           parent |-> None, fallback |-> TRUE, exception |-> second.exception]

\* Herald.reply(message, content, subject): the record of the call, with the
\* access that transmitted the reply (None: nothing was transmitted), the
\* replies-to the transport gives it (from `extra` on the transport that
\* delivered the original, none in the fallback to fire) and the exception
\* raised (None: the call returned). `rejecting1`: the transports that raise
\* InvalidPeerAccess when _fire_reply calls them, `rejecting2`: when fire
\* calls them.
reply(dir, trs, message, content, subject, rejecting1, rejecting2, failing) ==
  LET subj == IF subject = <<>> THEN message.subject ELSE subject
      first == fire_reply(trs, message, rejecting1, failing)
      second == fire(dir, trs, message.sender, rejecting2, failing)
  IN IF first.exception # NoTransport
     THEN [subject |-> subj, content |-> content, via |-> first.via,
           parent |-> IF IsNone(first.via) THEN None ELSE Some(message.uid),
           fallback |-> FALSE, exception |-> first.exception]
     ELSE [subject |-> subj, content |-> content, via |-> second.via,
           parent |-> None, fallback |-> TRUE,
           exception |-> IF second.exception = KeyError THEN NoTransport
                         ELSE second.exception]

\* ----------------------------------------------------------- fire_group

\* fire_group, lines 578-582: the keys of the dictionary `accesses` in the
\* order setdefault inserts them
RECURSIVE InsertKeys(_, _)
InsertKeys(keys, peer_accesses) ==
  IF peer_accesses = <<>> THEN keys
  ELSE InsertKeys(IF \E i \in 1..Len(keys) : keys[i] = Head(peer_accesses)
                  THEN keys ELSE Append(keys, Head(peer_accesses)),
                  Tail(peer_accesses))

RECURSIVE KeyOrder(_, _)
KeyOrder(all_peers, keys) ==
  IF all_peers = <<>> THEN keys
  ELSE KeyOrder(Tail(all_peers), InsertKeys(keys, get_accesses(Head(all_peers))))

\* fire_group, lines 578-582: accesses[access], the peers having the access
AccessPeers(all_peers, keys) ==
  [a \in {keys[i] : i \in 1..Len(keys)} |->
     {all_peers[j] : j \in {k \in 1..Len(all_peers) :
        \E i \in 1..Len(get_accesses(all_peers[k])) :
          get_accesses(all_peers[k])[i] = a}}]

\* fire_group, lines 584-587: the accesses sorted by (number of peers,
\* access id), in reverse
SortedAccesses(sets, keys) ==
  SortSeq(keys, LAMBDA a, b :
    \/ Cardinality(sets[a]) > Cardinality(sets[b])
    \/ /\ Cardinality(sets[a]) = Cardinality(sets[b])
       /\ AccessRank(a) > AccessRank(b))

\* fire_group, lines 609-614: remaining_peers.difference_update(access_peers)
\* for each value of the dictionary, in the order of its keys. access_peers
\* is itself the value of `access`: the update empties it when it reaches
\* it, and the values that follow are updated with the empty set.
RECURSIVE DifferenceUpdate(_, _, _, _)
DifferenceUpdate(sets, keys, access, access_peers) ==
  IF keys = <<>> THEN sets
  ELSE DifferenceUpdate([sets EXCEPT ![Head(keys)] = @ \ access_peers],
                        Tail(keys), access,
                        IF Head(keys) = access THEN {} ELSE access_peers)

\* fire_group, lines 589-618: the loop over the sorted accesses. `covered`:
\* the successful calls of transport.fire_group, `done`: the loop was left
\* by break.
RECURSIVE GroupLoop(_, _, _, _, _, _)
GroupLoop(sorted, sets, keys, trs, rejecting, covered) ==
  IF sorted = <<>> THEN [done |-> FALSE, sets |-> sets, covered |-> covered]
  ELSE LET access == Head(sorted)
           access_peers == sets[access]
           after == DifferenceUpdate(sets, keys, access, access_peers)
           called == Append(covered, [access |-> access, peers |-> access_peers])
       IN IF access_peers = {} \/ access \notin trs \/ access \in rejecting
          THEN GroupLoop(Tail(sorted), sets, keys, trs, rejecting, covered)
          ELSE IF \A a \in DOMAIN after : after[a] = {}
               THEN [done |-> TRUE, sets |-> after, covered |-> called]
               ELSE GroupLoop(Tail(sorted), after, keys, trs, rejecting, called)

\* Herald.fire_group(group, message), `all_peers` being what
\* get_peers_for_group gives, in the order it is iterated: the exception
\* raised (None: the call returned (message.uid, unreached)), the value of
\* `missing` and the successful calls of transport.fire_group.
\* ', '.join(missing) raises TypeError when missing holds a Peer bean.
fire_group(all_peers, trs, rejecting) ==
  LET keys == KeyOrder(all_peers, <<>>)
      sets == AccessPeers(all_peers, keys)
      loop == GroupLoop(SortedAccesses(sets, keys), sets, keys, trs,
                        rejecting, <<>>)
      missing == IF loop.done THEN {}
                 ELSE UNION {loop.sets[a] : a \in DOMAIN loop.sets}
  IN IF trs = {}
     THEN [exception |-> NoTransport, unreached |-> {}, covered |-> <<>>]
     ELSE [exception |-> IF missing # {} THEN TypeError ELSE None,
           unreached |-> missing, covered |-> loop.covered]

\* ---------------------------------------------------------- environment

\* Herald._validate
Validate ==
  /\ engine = "new"
  /\ engine' = "valid"
  /\ pool' = "started"
  /\ gc_timer' = "started"
  /\ UNCHANGED <<now, transports, controller, directory, listeners,
                 msg_listeners, waiting_events, cell, waiting_posts, wpost,
                 pc, outcome, calls, fired, inv_snapshot, inflight,
                 gc_removed, handled, resolver, woke, api, holder, stack,
                 messenger, broker, routed, pool_queue, pool_workers, handed,
                 started, conn, transmitted>>

\* The passing of time.
Tick ==
  /\ now < MaxTime
  /\ now' = now + 1
  /\ UNCHANGED <<engine, transports, controller, directory, listeners,
                 msg_listeners, waiting_events, cell, waiting_posts, wpost,
                 pc, outcome, calls, fired, inv_snapshot, inflight,
                 gc_removed, handled, resolver, woke, api, pool, gc_timer,
                 holder, stack, messenger, broker, routed, pool_queue,
                 pool_workers, handed, started, conn, transmitted>>

\* Herald._bind_transport
BindTransport(access) ==
  /\ access \notin transports
  /\ transports' = transports \cup {access}
  /\ controller' = TRUE
  /\ UNCHANGED <<engine, now, directory, listeners, msg_listeners,
                 waiting_events, cell, waiting_posts, wpost, pc, outcome,
                 calls, fired, inv_snapshot, inflight, gc_removed, handled,
                 resolver, woke, api, pool, gc_timer, holder, stack,
                 messenger, broker, routed, pool_queue, pool_workers, handed,
                 started, conn, transmitted>>

\* Fault injection: an unbinding that leaves the controller alone.
UnbindTransportKeepsFlag(access) ==
  /\ access \in transports
  /\ UNCHANGED controller
  /\ transports' = transports \ {access}
  /\ UNCHANGED <<engine, now, directory, listeners, msg_listeners,
                 waiting_events, cell, waiting_posts, wpost, pc, outcome,
                 calls, fired, inv_snapshot, inflight, gc_removed, handled,
                 resolver, woke, api, pool, gc_timer, holder, stack,
                 messenger, broker, routed, pool_queue, pool_workers, handed,
                 started, conn, transmitted>>

\* Herald._unbind_transport
UnbindTransport(access) ==
  /\ access \in transports
  /\ controller' = IF Cardinality(transports) = 1 THEN FALSE ELSE controller
  /\ transports' = transports \ {access}
  /\ UNCHANGED <<engine, now, directory, listeners, msg_listeners,
                 waiting_events, cell, waiting_posts, wpost, pc, outcome,
                 calls, fired, inv_snapshot, inflight, gc_removed, handled,
                 resolver, woke, api, pool, gc_timer, holder, stack,
                 messenger, broker, routed, pool_queue, pool_workers, handed,
                 started, conn, transmitted>>

\* self.__msg_listeners.setdefault(re_filter, set()).add(listener), for
\* every filter of `filters`
AddListener(registry, filters, listener) ==
  [p \in DOMAIN registry \cup filters |->
     IF p \in filters
     THEN (IF p \in DOMAIN registry THEN registry[p] ELSE {}) \cup {listener}
     ELSE registry[p]]

\* listeners.remove(listener), and del self.__msg_listeners[re_filter] when
\* the set becomes empty, for every filter of `filters`
RemoveListener(registry, filters, listener) ==
  LET left(p) == IF p \in filters THEN registry[p] \ {listener} ELSE registry[p]
  IN [p \in {q \in DOMAIN registry : left(q) # {}} |-> left(p)]

\* Herald._bind_listener
BindListener(listener, filters) ==
  /\ listener \notin DOMAIN listeners
  /\ listeners' = [l \in DOMAIN listeners \cup {listener} |->
                     IF l = listener THEN filters ELSE listeners[l]]
  /\ msg_listeners' = AddListener(msg_listeners, filters, listener)
  /\ UNCHANGED <<engine, now, transports, controller, directory,
                 waiting_events, cell, waiting_posts, wpost, pc, outcome,
                 calls, fired, inv_snapshot, inflight, gc_removed, handled,
                 resolver, woke, api, pool, gc_timer, holder, stack,
                 messenger, broker, routed, pool_queue, pool_workers, handed,
                 started, conn, transmitted>>

\* Herald._unbind_listener
UnbindListener(listener) ==
  /\ listener \in DOMAIN listeners
  /\ listeners' = [l \in DOMAIN listeners \ {listener} |-> listeners[l]]
  /\ msg_listeners' = RemoveListener(msg_listeners, listeners[listener], listener)
  /\ UNCHANGED <<engine, now, transports, controller, directory,
                 waiting_events, cell, waiting_posts, wpost, pc, outcome,
                 calls, fired, inv_snapshot, inflight, gc_removed, handled,
                 resolver, woke, api, pool, gc_timer, holder, stack,
                 messenger, broker, routed, pool_queue, pool_workers, handed,
                 started, conn, transmitted>>

\* Fault injection: an update that registers the new filters and leaves the
\* dropped ones in place.
UpdateFiltersAddOnly(registry, old_filters, new_filters, listener) ==
  AddListener(registry, new_filters \ old_filters, listener)

\* Herald._update_listener, lines 289-310: the registry once the added
\* filters are registered and the removed ones cleaned up
UpdateFilters(registry, old_filters, new_filters, listener) ==
  LET added_filters == new_filters \ old_filters
      removed_filters == old_filters \ new_filters
  IN RemoveListener(AddListener(registry, added_filters, listener),
                    removed_filters, listener)

\* Herald._update_listener: the filters property of a bound listener has
\* changed from old_props to the properties of svc_ref
UpdateListener(listener, new_filters) ==
  /\ listener \in DOMAIN listeners
  /\ new_filters # listeners[listener]
  /\ listeners' = [listeners EXCEPT ![listener] = new_filters]
  /\ msg_listeners' = UpdateFilters(msg_listeners, listeners[listener],
                                    new_filters, listener)
  /\ UNCHANGED <<engine, now, transports, controller, directory,
                 waiting_events, cell, waiting_posts, wpost, pc, outcome,
                 calls, fired, inv_snapshot, inflight, gc_removed, handled,
                 resolver, woke, api, pool, gc_timer, holder, stack,
                 messenger, broker, routed, pool_queue, pool_workers, handed,
                 started, conn, transmitted>>

\* MQTTRouter.on_message: a discovery message goes to the PeerContact, which
\* registers the peer in the directory
PeerDiscovered(peer) ==
  /\ transports # {}
  /\ peer \notin directory
  /\ directory' = directory \cup {peer}
  /\ UNCHANGED <<engine, now, transports, controller, listeners,
                 msg_listeners, waiting_events, cell, waiting_posts, wpost,
                 pc, outcome, calls, fired, inv_snapshot, inflight,
                 gc_removed, resolver, woke, handled, api, pool, gc_timer,
                 holder, stack, messenger, broker, routed, pool_queue,
                 pool_workers, handed, started, conn, transmitted>>

\* ------------------------------------------------------- async waiters

\* The timeout a caller of post may give: None, 0 or 1 second.
Timeouts == {None, Some(0), Some(1)}

\* _WaitingPost.__init__: the deadline of a post made at time `t`
Deadline(timeout, t) ==
  IF ~IsNone(timeout) /\ timeout[1] > 0 THEN Some(t + timeout[1]) ELSE None

\* _WaitingPost.is_dead
is_dead(waiting_post, t) ==
  IF ~IsNone(waiting_post.deadline) THEN waiting_post.deadline[1] > t ELSE FALSE

\* The log of the user functions called for a post, with one more entry.
Logged(log, entry) == IF Len(log) < MaxCalls THEN Append(log, entry) ELSE log

\* _WaitingPost.callback(herald_svc, message)
callback(waiting_post, log, message) ==
  IF waiting_post.errback
  THEN Logged(log, <<"callback", <<"reply", message.uid>>>>)
  ELSE log

\* _WaitingPost.errback(herald_svc, exception)
errback(waiting_post, log, exception) ==
  IF waiting_post.errback THEN Logged(log, <<"errback", exception>>) ELSE log

\* Fault injection: a sweep that also calls the errback of what it deletes.
GarbageCollectNotifying ==
  /\ gc_timer = "started"
  /\ LET to_delete == {uid \in waiting_posts : is_dead(wpost[uid], now)}
     IN /\ waiting_posts' = waiting_posts \ to_delete
        /\ gc_removed' = gc_removed \cup to_delete
        /\ calls' = [u \in UIDs |->
                       IF u \in to_delete
                       THEN errback(wpost[u], calls[u],
                                    HeraldTimeout("Timeout reached before receiving a reply"))
                       ELSE calls[u]]
  /\ UNCHANGED <<engine, now, transports, controller, directory, listeners,
                 msg_listeners, waiting_events, cell, wpost, pc, outcome,
                 fired, inv_snapshot, inflight, handled, resolver, woke, api,
                 pool, gc_timer, holder, stack, messenger, broker, routed,
                 pool_queue, pool_workers, handed, started, conn,
                 transmitted>>

\* Herald.__garbage_collect
GarbageCollect ==
  /\ gc_timer = "started"
  /\ LET to_delete == {uid \in waiting_posts : is_dead(wpost[uid], now)}
     IN /\ waiting_posts' = waiting_posts \ to_delete
        /\ gc_removed' = gc_removed \cup to_delete
  /\ UNCHANGED <<engine, now, transports, controller, directory, listeners,
                 msg_listeners, waiting_events, cell, wpost, pc, outcome,
                 calls, fired, inv_snapshot, inflight, handled, resolver,
                 woke, api, pool, gc_timer, holder, stack, messenger, broker,
                 routed, pool_queue, pool_workers, handed, started, conn,
                 transmitted>>

\* ------------------------------------------------------ send and post

Returned(value) == [kind |-> "return", value |-> value, exception |-> None]
Raised(exception) == [kind |-> "raise", value |-> None, exception |-> exception]

\* Fault injection: a send that calls fire before its sync-waiter is in
\* the table.
SendRegisterLate(uid, at) ==
  /\ pc[uid] = at
  /\ cell' = [cell EXCEPT ![uid] = NewEventData]
  /\ pc' = [pc EXCEPT ![uid] = "send_fire"]
  /\ UNCHANGED <<engine, now, transports, controller, directory, listeners,
                 msg_listeners, waiting_events, waiting_posts, wpost, outcome,
                 calls, fired, inv_snapshot, inflight, gc_removed, handled,
                 resolver, woke, api, pool, gc_timer, holder, stack,
                 messenger, broker, routed, pool_queue, pool_workers, handed,
                 started, conn, transmitted>>

\* Herald.send, lines 640-642: the sync-waiter is registered, for a message
\* bean that is at `at`
SendRegisterAt(uid, at) ==
  /\ pc[uid] = at
  /\ cell' = [cell EXCEPT ![uid] = NewEventData]
  /\ waiting_events' = waiting_events \cup {uid}
  /\ pc' = [pc EXCEPT ![uid] = "send_fire"]
  /\ UNCHANGED <<engine, now, transports, controller, directory, listeners,
                 msg_listeners, waiting_posts, wpost, outcome, calls, fired,
                 inv_snapshot, inflight, gc_removed, handled, resolver, woke,
                 api, pool, gc_timer, holder, stack, messenger, broker,
                 routed, pool_queue, pool_workers, handed, started, conn,
                 transmitted>>

\* Herald.send called with a new message bean
SendRegister(uid) == SendRegisterAt(uid, "unused")

\* Herald.send called with the message bean that post or post_group was
\* given before: the uid of a bean is drawn once, when it is made
\* (beans.py, Message.__init__), and send registers whatever bean it gets
SendPosted(uid) ==
  \/ SendRegisterAt(uid, "post_done")
  \/ SendRegisterAt(uid, "post_group_done")

\* Herald.send, line 646: self.fire(target, message)
SendFire(uid, target, rejecting) ==
  /\ pc[uid] = "send_fire"
  /\ LET f == fire(directory, transports, target, rejecting, {})
     IN IF IsNone(f.exception)
        THEN /\ fired' = fired \cup {uid}
             /\ pc' = [pc EXCEPT ![uid] = "send_wait"]
             /\ UNCHANGED outcome
        ELSE /\ outcome' = [outcome EXCEPT ![uid] = Some(Raised(f.exception))]
             /\ pc' = [pc EXCEPT ![uid] = "send_finally"]
             /\ UNCHANGED fired
  /\ UNCHANGED <<engine, now, transports, controller, directory, listeners,
                 msg_listeners, waiting_events, cell, waiting_posts, wpost,
                 calls, inv_snapshot, inflight, gc_removed, handled, resolver,
                 woke, api, pool, gc_timer, holder, stack, messenger, broker,
                 routed, pool_queue, pool_workers, handed, started, conn,
                 transmitted>>

\* Fault injection: a send that returns the data of a set event as it is,
\* without the test of the None sentinel.
SendResultNoSentinel(event, isSet) ==
  IF ~IsNone(event.exception) THEN Raised(event.exception)
  ELSE IF isSet THEN Returned(event.data)
       ELSE Raised(HeraldTimeout("Timeout reached before receiving a reply"))

\* Herald.send, lines 649-658, once event.wait(timeout) is over: what the
\* call returns or raises. `isSet`: the result of Event.wait.
SendResult(event, isSet) ==
  IF ~IsNone(event.exception) THEN Raised(event.exception)
  ELSE IF isSet
       THEN (IF ~IsNone(event.data) THEN Returned(event.data)
             ELSE Raised(StopsListening))
       ELSE Raised(TimeoutReached)

\* Herald.send, line 649: event.wait(timeout) ends because the event is set
SendWake(uid) ==
  /\ pc[uid] = "send_wait"
  /\ cell[uid].isSet
  /\ outcome' = [outcome EXCEPT ![uid] = Some(SendResult(cell[uid], TRUE))]
  /\ pc' = [pc EXCEPT ![uid] = "send_finally"]
  /\ woke' = [woke EXCEPT ![uid] = resolver[uid]]
  /\ UNCHANGED <<engine, now, transports, controller, directory, listeners,
                 msg_listeners, waiting_events, cell, waiting_posts, wpost,
                 calls, fired, inv_snapshot, inflight, gc_removed, handled,
                 resolver, api, pool, gc_timer, holder, stack, messenger,
                 broker, routed, pool_queue, pool_workers, handed, started,
                 conn, transmitted>>

\* Herald.send, line 649: event.wait(timeout) ends because of the timeout
SendTimeout(uid) ==
  /\ pc[uid] = "send_wait"
  /\ ~cell[uid].isSet
  /\ outcome' = [outcome EXCEPT ![uid] = Some(SendResult(cell[uid], FALSE))]
  /\ pc' = [pc EXCEPT ![uid] = "send_finally"]
  /\ woke' = [woke EXCEPT ![uid] = "timeout"]
  /\ UNCHANGED <<engine, now, transports, controller, directory, listeners,
                 msg_listeners, waiting_events, cell, waiting_posts, wpost,
                 calls, fired, inv_snapshot, inflight, gc_removed, handled,
                 resolver, api, pool, gc_timer, holder, stack, messenger,
                 broker, routed, pool_queue, pool_workers, handed, started,
                 conn, transmitted>>

\* Fault injection: a finally clause that leaves the table alone.
SendCleanUpSkipped(events, uid) == events

\* Herald.send, lines 659-665: the finally clause
SendCleanUp(events, uid) == events \ {uid}

SendFinally(uid) ==
  /\ pc[uid] = "send_finally"
  /\ waiting_events' = SendCleanUp(waiting_events, uid)
  /\ pc' = [pc EXCEPT ![uid] = "send_done"]
  /\ UNCHANGED <<engine, now, transports, controller, directory, listeners,
                 msg_listeners, cell, waiting_posts, wpost, outcome, calls,
                 fired, inv_snapshot, inflight, gc_removed, handled, resolver,
                 woke, api, pool, gc_timer, holder, stack, messenger, broker,
                 routed, pool_queue, pool_workers, handed, started, conn,
                 transmitted>>

\* Herald.post, lines 687-690: the async-waiter is registered
PostRegister(uid, has_errback, timeout, forget_on_first) ==
  /\ pc[uid] = "unused"
  /\ wpost' = [wpost EXCEPT ![uid] =
                 [errback |-> has_errback, deadline |-> Deadline(timeout, now),
                  forget_on_first |-> forget_on_first]]
  /\ waiting_posts' = waiting_posts \cup {uid}
  /\ pc' = [pc EXCEPT ![uid] = "post_fire"]
  /\ UNCHANGED <<engine, now, transports, controller, directory, listeners,
                 msg_listeners, waiting_events, cell, outcome, calls, fired,
                 inv_snapshot, inflight, gc_removed, handled, resolver, woke,
                 api, pool, gc_timer, holder, stack, messenger, broker,
                 routed, pool_queue, pool_workers, handed, started, conn,
                 transmitted>>

\* Herald.post, lines 692-701: what post returns or raises when fire raised
\* `exception`
PostFailure(exception) == Returned(None)

\* Herald.post, lines 692-701: self.fire(target, message) and the clean up
PostFire(uid, target, rejecting) ==
  /\ pc[uid] = "post_fire"
  /\ LET f == fire(directory, transports, target, rejecting, {})
     IN IF IsNone(f.exception)
        THEN /\ fired' = fired \cup {uid}
             /\ outcome' = [outcome EXCEPT ![uid] = Some(Returned(Some([uid |-> uid])))]
             /\ UNCHANGED waiting_posts
        ELSE /\ outcome' = [outcome EXCEPT ![uid] = Some(PostFailure(f.exception))]
             /\ waiting_posts' = waiting_posts \ {uid}
             /\ UNCHANGED fired
  /\ pc' = [pc EXCEPT ![uid] = "post_done"]
  /\ UNCHANGED <<engine, now, transports, controller, directory, listeners,
                 msg_listeners, waiting_events, cell, wpost, calls,
                 inv_snapshot, inflight, gc_removed, handled, resolver, woke,
                 api, pool, gc_timer, holder, stack, messenger, broker,
                 routed, pool_queue, pool_workers, handed, started, conn,
                 transmitted>>

\* Herald.post_group(group, message, callback, errback, timeout), lines
\* 703-771, `all_peers` being what get_peers_for_group gives: NoTransport
\* when no transport is bound; otherwise the async-waiter is registered
\* with forget_on_first False, the transports are called as fire_group
\* calls them, and the uid is returned whatever they reached
PostGroup(uid, has_errback, timeout, all_peers, rejecting) ==
  /\ pc[uid] = "unused"
  /\ IF transports = {}
     THEN /\ outcome' = [outcome EXCEPT ![uid] = Some(Raised(NoTransport))]
          /\ pc' = [pc EXCEPT ![uid] = "post_done"]
          /\ UNCHANGED <<wpost, waiting_posts, fired>>
     ELSE LET keys == KeyOrder(all_peers, <<>>)
              sets == AccessPeers(all_peers, keys)
              loop == GroupLoop(SortedAccesses(sets, keys), sets, keys,
                                transports, rejecting, <<>>)
          IN /\ wpost' = [wpost EXCEPT ![uid] =
                            [errback |-> has_errback,
                             deadline |-> Deadline(timeout, now),
                             forget_on_first |-> FALSE]]
             /\ waiting_posts' = waiting_posts \cup {uid}
             /\ fired' = IF loop.covered # <<>> THEN fired \cup {uid}
                         ELSE fired
             /\ outcome' = [outcome EXCEPT ![uid] =
                              Some(Returned(Some([uid |-> uid])))]
             /\ pc' = [pc EXCEPT ![uid] = "post_group_done"]
  /\ UNCHANGED <<engine, now, transports, controller, directory, listeners,
                 msg_listeners, waiting_events, cell, calls, inv_snapshot,
                 inflight, gc_removed, handled, resolver, woke, api, pool,
                 gc_timer, holder, stack, messenger, broker, routed,
                 pool_queue, pool_workers, handed, started, conn,
                 transmitted>>

\* Fault injection: a forget that reads the waiting post and leaves it in
\* the table.
ForgetEffectKeepsPost(uid) ==
  /\ waiting_events' = waiting_events \ {uid}
  /\ cell' = IF uid \in waiting_events
             THEN [cell EXCEPT ![uid] = EventRaise(ForgotMessage(uid))]
             ELSE cell
  /\ UNCHANGED waiting_posts
  /\ calls' = IF uid \in waiting_posts
              THEN [calls EXCEPT ![uid] = errback(wpost[uid], @, ForgotMessage(uid))]
              ELSE calls
  /\ resolver' = IF uid \in waiting_events
                 THEN [resolver EXCEPT ![uid] = "forget"]
                 ELSE resolver

\* Herald.forget(uid), lines 785-801: both waiters of uid are popped; the
\* event raises ForgotMessage and the errback is called with it
ForgetEffect(uid) ==
  /\ waiting_events' = waiting_events \ {uid}
  /\ cell' = IF uid \in waiting_events
             THEN [cell EXCEPT ![uid] = EventRaise(ForgotMessage(uid))]
             ELSE cell
  /\ waiting_posts' = waiting_posts \ {uid}
  /\ calls' = IF uid \in waiting_posts
              THEN [calls EXCEPT ![uid] = errback(wpost[uid], @, ForgotMessage(uid))]
              ELSE calls
  /\ resolver' = IF uid \in waiting_events
                 THEN [resolver EXCEPT ![uid] = "forget"]
                 ELSE resolver

\* Herald.forget(uid), lines 784-803: the boolean it returns
ForgetResult(uid) == uid \in waiting_events \/ uid \in waiting_posts

\* Herald.forget(uid), for a uid that has a waiter
Forget(uid) ==
  /\ uid \in waiting_events \cup waiting_posts
  /\ ForgetEffect(uid)
  /\ UNCHANGED <<engine, now, transports, controller, directory, listeners,
                 msg_listeners, wpost, pc, outcome, fired, inv_snapshot,
                 inflight, gc_removed, handled, woke, api, pool, gc_timer,
                 holder, stack, messenger, broker, routed, pool_queue,
                 pool_workers, handed, started, conn, transmitted>>

\* Herald.forget(uid), for any uid, with the value it returns
ForgetCall(uid) ==
  /\ ForgetEffect(uid)
  /\ api' = [op |-> "forget", uid |-> uid, result |-> ForgetResult(uid)]
  /\ UNCHANGED <<engine, now, transports, controller, directory, listeners,
                 msg_listeners, wpost, pc, outcome, fired, inv_snapshot,
                 inflight, gc_removed, handled, woke, pool, gc_timer, holder,
                 stack, messenger, broker, routed, pool_queue, pool_workers,
                 handed, started, conn, transmitted>>

\* ------------------------------------------------------------ shutdown

\* Herald._invalidate, lines 211-220: the timer and the pool are stopped,
\* and the sync-waiters to release are listed
InvalidateStart ==
  /\ engine = "valid"
  /\ engine' = "inv_events"
  /\ inv_snapshot' = waiting_events
  /\ gc_timer' = "none"
  /\ pool' = "stopped"
  /\ UNCHANGED <<now, transports, controller, directory, listeners,
                 msg_listeners, waiting_events, cell, waiting_posts, wpost,
                 pc, outcome, calls, fired, inflight, gc_removed, handled,
                 resolver, woke, api, holder, stack, messenger, broker,
                 routed, pool_queue, pool_workers, handed, started, conn,
                 transmitted>>

\* Herald._invalidate, lines 220-221: event.set(None) on each listed event
InvalidateEvents ==
  /\ engine = "inv_events"
  /\ engine' = "inv_posts"
  /\ cell' = [u \in UIDs |-> IF u \in inv_snapshot THEN EventSet(None) ELSE cell[u]]
  /\ inv_snapshot' = {}
  /\ resolver' = [u \in UIDs |-> IF u \in inv_snapshot THEN "shutdown"
                                  ELSE resolver[u]]
  /\ UNCHANGED <<now, transports, controller, directory, listeners,
                 msg_listeners, waiting_events, waiting_posts, wpost, pc,
                 outcome, calls, fired, inflight, gc_removed, handled, woke,
                 api, pool, gc_timer, holder, stack, messenger, broker,
                 routed, pool_queue, pool_workers, handed, started, conn,
                 transmitted>>

\* Fault injection: a shutdown that skips the errbacks of the waiting posts.
InvalidatePostsSilent ==
  /\ engine = "inv_posts"
  /\ engine' = "inv_clear"
  /\ UNCHANGED calls
  /\ UNCHANGED <<now, transports, controller, directory, listeners,
                 msg_listeners, waiting_events, cell, waiting_posts, wpost,
                 pc, outcome, fired, inv_snapshot, inflight, gc_removed,
                 handled, resolver, woke, api, pool, gc_timer, holder, stack,
                 messenger, broker, routed, pool_queue, pool_workers, handed,
                 started, conn, transmitted>>

\* Herald._invalidate, lines 223-226: the errback of each waiting post
InvalidatePosts ==
  /\ engine = "inv_posts"
  /\ engine' = "inv_clear"
  /\ calls' = [u \in UIDs |-> IF u \in waiting_posts
                              THEN errback(wpost[u], calls[u], StopsListening)
                              ELSE calls[u]]
  /\ UNCHANGED <<now, transports, controller, directory, listeners,
                 msg_listeners, waiting_events, cell, waiting_posts, wpost,
                 pc, outcome, fired, inv_snapshot, inflight, gc_removed,
                 handled, resolver, woke, api, pool, gc_timer, holder, stack,
                 messenger, broker, routed, pool_queue, pool_workers, handed,
                 started, conn, transmitted>>

\* Herald._invalidate, lines 228-233: both tables are cleared
InvalidateClear ==
  /\ engine = "inv_clear"
  /\ engine' = "stopped"
  /\ waiting_events' = {}
  /\ waiting_posts' = {}
  /\ UNCHANGED <<now, transports, controller, directory, listeners,
                 msg_listeners, cell, wpost, pc, outcome, calls, fired,
                 inv_snapshot, inflight, gc_removed, handled, resolver, woke,
                 api, pool, gc_timer, holder, stack, messenger, broker,
                 routed, pool_queue, pool_workers, handed, started, conn,
                 transmitted>>

\* --------------------------------------------------- received messages

\* The uid of the next received message: one no suspended call holds.
FreshMsgId ==
  IF "r1" \notin {t.msg.uid : t \in inflight} THEN "r1" ELSE "r2"

\* A MessageReceived bean.
Received(uid, subject, reply_to, content, sender, access) ==
  [uid |-> uid, subject |-> subject, reply_to |-> reply_to,
   content |-> content, sender |-> sender, access |-> access]

\* Replies-to headers a peer can give: none, or the uid of a message that a
\* transport accepted.
ReplyTos == {None} \cup {Some(u) : u \in fired}

\* Contents of herald/error/no-listener messages: the complete one a Herald
\* engine makes for a message it received and contents lacking a key.
ErrorContents ==
  {[uid |-> u, subject |-> SubjectOf(u)] : u \in fired}
    \cup {[uid |-> u] : u \in fired} \cup {[subject |-> NobodyHome]}

\* The herald/error/no-listener messages a bound transport may hand to
\* handle_message.
ErrorMessages ==
  {Received(FreshMsgId, ErrNoListener, None, c, p, a) :
     c \in ErrorContents, p \in directory, a \in transports}

\* The messages a bound transport may hand to handle_message: those of the
\* peers the directory knows (MqttTransport.on_message drops the others).
Inbound ==
  {Received(FreshMsgId, s, r, [data |-> "hi"], p, a) :
     s \in {DemoEcho, NobodyHome, ErrShort}, r \in ReplyTos,
     p \in directory, a \in transports}
  \cup ErrorMessages \cup
  {Received(FreshMsgId, s, r, [peer |-> p], p, a) :
     s \in {DirNewcomer, DirWelcome, DirBye}, r \in ReplyTos,
     p \in directory, a \in transports}

\* Fault injection: an engine that takes no subject for an error.
IsErrorMessageNever(message) == FALSE

\* handle_message, lines 355-369: which internal handler the subject selects
IsErrorMessage(message) ==
  LET parts == Parts(message.subject)
  IN Len(parts) >= 3 /\ parts[1] = "herald" /\ parts[2] = "error"

IsDirectoryMessage(message) ==
  LET parts == Parts(message.subject)
  IN Len(parts) >= 3 /\ parts[1] = "herald" /\ parts[2] = "directory"

\* The report of a handle_message call that has just begun.
Report(message) == [NoReport EXCEPT !.subject = message.subject,
                                    !.result = "ok"]

\* Herald._handle_error(message, kind), lines 381-390: the uid to release
\* (None when the kind is not no-listener or the content lacks a key)
ErrorUid(message, kind) ==
  IF kind = "no-listener" /\ "uid" \in DOMAIN message.content
     /\ "subject" \in DOMAIN message.content
  THEN Some(message.content.uid)
  ELSE None

\* Fault injection: an error handler that releases the blocking send only.
HandleErrorEffectEventsOnly(message, kind) ==
  LET target == ErrorUid(message, kind)
      uid == target[1]
      exception == NoListener(uid, message.content.subject)
  IN IF IsNone(target)
     THEN UNCHANGED <<waiting_events, cell, waiting_posts, calls, resolver>>
     ELSE /\ waiting_events' = waiting_events \ {uid}
          /\ resolver' = IF uid \in waiting_events
                         THEN [resolver EXCEPT ![uid] = "no-listener"]
                         ELSE resolver
          /\ cell' = IF uid \in waiting_events
                     THEN [cell EXCEPT ![uid] = EventRaise(exception)]
                     ELSE cell
          /\ UNCHANGED <<waiting_posts, calls>>

\* Herald._handle_error(message, kind), lines 392-406
HandleErrorEffect(message, kind) ==
  LET target == ErrorUid(message, kind)
      uid == target[1]
      exception == NoListener(uid, message.content.subject)
  IN IF IsNone(target)
     THEN UNCHANGED <<waiting_events, cell, waiting_posts, calls, resolver>>
     ELSE /\ waiting_events' = waiting_events \ {uid}
          /\ resolver' = IF uid \in waiting_events
                         THEN [resolver EXCEPT ![uid] = "no-listener"]
                         ELSE resolver
          /\ cell' = IF uid \in waiting_events
                     THEN [cell EXCEPT ![uid] = EventRaise(exception)]
                     ELSE cell
          /\ waiting_posts' = waiting_posts \ {uid}
          /\ calls' = IF uid \in waiting_posts
                      THEN [calls EXCEPT ![uid] = errback(wpost[uid], @, exception)]
                      ELSE calls

\* handle_message for herald/error/<kind>: _handle_error, then return
HandleErrorCall(message) ==
  /\ message.access \in transports
  /\ IsErrorMessage(message)
  /\ HandleErrorEffect(message, Parts(message.subject)[3])
  /\ handled' = Report(message)
  /\ UNCHANGED <<engine, now, transports, controller, directory, listeners,
                 msg_listeners, wpost, pc, outcome, fired, inv_snapshot,
                 inflight, gc_removed, woke, api, pool, gc_timer, holder,
                 stack, pool_queue, pool_workers, handed, started, conn>>

\* handle_message called with an error message by a transport whose own
\* part in the reception is not modelled
HandleError(message) ==
  /\ HandleErrorCall(message)
  /\ UNCHANGED <<messenger, broker, routed, transmitted>>

\* Herald._handle_directory_message(message, kind): the directory afterwards
DirectoryAfter(dir, message, kind) ==
  IF kind \in {"newcomer", "welcome"} THEN dir \cup {message.content.peer}
  ELSE IF kind = "bye" THEN dir \ {message.content.peer}
  ELSE dir

\* Herald._handle_directory_message(message, kind): the exception it raises.
\* For a newcomer, get_local_peer().dump() is evaluated before reply is
\* called: Peer.dump builds a set holding the set of groups and raises.
DirectoryRaises(kind) == IF kind = "newcomer" THEN TypeError ELSE None

\* Fault injection: an error reply whose content lacks the subject.
NotifyListenersUidOnly(report, message, dir, rejecting1, rejecting2) ==
  LET subject == message.subject
      found == UNION {msg_listeners[f] :
                        f \in {g \in DOMAIN msg_listeners : match(g, subject)}}
      answer == reply(dir, transports, message, [uid |-> message.uid],
                      ErrNoListener, rejecting1, rejecting2, {})
  IN IF found # {}
     THEN [report EXCEPT !.enqueued = found]
     ELSE [report EXCEPT !.replies = Append(@, answer),
                         !.result = IF IsNone(answer.exception) THEN "ok"
                                    ELSE answer.exception[1]]

\* Fault injection: a lookup that stops at the first filter that matches.
NotifyListenersFirstFilter(report, message, dir, rejecting1, rejecting2) ==
  LET subject == message.subject
      matching == {g \in DOMAIN msg_listeners : match(g, subject)}
      found == IF matching = {} THEN {}
               ELSE msg_listeners[CHOOSE g \in matching : TRUE]
      answer == reply(dir, transports, message,
                      [uid |-> message.uid, subject |-> message.subject],
                      ErrNoListener, rejecting1, rejecting2, {})
  IN IF found # {}
     THEN [report EXCEPT !.enqueued = found]
     ELSE [report EXCEPT !.replies = Append(@, answer),
                         !.result = IF IsNone(answer.exception) THEN "ok"
                                    ELSE answer.exception[1]]

\* __notify, lines 460-482: the listeners to call, or the error reply
NotifyListeners(report, message, dir, rejecting1, rejecting2) ==
  LET subject == message.subject
      found == UNION {msg_listeners[f] :
                        f \in {g \in DOMAIN msg_listeners : match(g, subject)}}
      answer == reply(dir, transports, message,
                      [uid |-> message.uid, subject |-> message.subject],
                      ErrNoListener, rejecting1, rejecting2, {})
  IN IF found # {}
     THEN [report EXCEPT !.enqueued = found]
     ELSE [report EXCEPT !.replies = Append(@, answer),
                         !.result = IF IsNone(answer.exception) THEN "ok"
                                    ELSE answer.exception[1]]

\* Fault injection: a reply releases the send that is waiting, whichever
\* message it answers.
ReplyKeyAnyWaiter(message) ==
  IF waiting_events # {} THEN CHOOSE u \in waiting_events : TRUE
  ELSE message.reply_to[1]

\* __notify, line 442: the key popped from __waiting_events for a message
\* that has a reply_to
ReplyKey(message) == message.reply_to[1]

\* Whether __notify finds a _WaitingPost for the message (lines 447-453)
FindsPost(message) ==
  ~IsNone(message.reply_to) /\ message.reply_to[1] \in waiting_posts

\* handle_message for any other message: the directory handler if the subject
\* selects it, then __notify up to the lookup of the _WaitingPost; the call
\* is suspended there when one is found, and goes on to the listeners if not
HandleMessageCall(message, rejecting1, rejecting2) ==
  /\ message.access \in transports
  /\ ~IsErrorMessage(message)
  /\ LET kind == IF IsDirectoryMessage(message) THEN Parts(message.subject)[3]
                 ELSE ""
         dir == DirectoryAfter(directory, message, kind)
         raises == DirectoryRaises(kind)
         releases == ~IsNone(message.reply_to)
                       /\ ReplyKey(message) \in waiting_events
         report == [Report(message) EXCEPT !.notify = TRUE]
     IN /\ directory' = dir
        /\ IF ~IsNone(raises)
           THEN /\ handled' = [Report(message) EXCEPT !.result = raises[1]]
                /\ UNCHANGED <<waiting_events, cell, inflight, resolver>>
           ELSE /\ waiting_events' = IF releases
                                     THEN waiting_events \ {ReplyKey(message)}
                                     ELSE waiting_events
                /\ cell' = IF releases
                           THEN [cell EXCEPT ![ReplyKey(message)] =
                                   EventSet(Some(message))]
                           ELSE cell
                /\ resolver' = IF releases
                               THEN [resolver EXCEPT ![ReplyKey(message)] =
                                       "reply"]
                               ELSE resolver
                /\ IF FindsPost(message)
                   THEN /\ inflight' = inflight \cup {[msg |-> message]}
                        /\ UNCHANGED handled
                   ELSE /\ handled' = NotifyListeners(report, message, dir,
                                                      rejecting1, rejecting2)
                        /\ UNCHANGED inflight
  /\ UNCHANGED <<engine, now, transports, controller, listeners,
                 msg_listeners, waiting_posts, wpost, pc, outcome, calls,
                 fired, inv_snapshot, gc_removed, woke, api, pool, gc_timer,
                 holder, stack, pool_workers, started, conn>>

\* handle_message called with any other message by a transport whose own
\* part in the reception is not modelled; the tasks given to the pool are
\* reported in `handled` and not followed further
HandleMessage(message, rejecting1, rejecting2) ==
  /\ HandleMessageCall(message, rejecting1, rejecting2)
  /\ UNCHANGED <<messenger, broker, routed, pool_queue, handed,
                 transmitted>>

\* __notify, lines 454-482, for a call suspended after the lookup: the
\* callback, the removal of a forget_on_first waiter, then the listeners
NotifyCallback(t, rejecting1, rejecting2) ==
  /\ t \in inflight
  /\ inflight' = inflight \ {t}
  /\ LET uid == t.msg.reply_to[1]
         forgets == wpost[uid].forget_on_first
         report == [Report(t.msg) EXCEPT !.notify = TRUE]
     IN /\ calls' = [calls EXCEPT ![uid] = callback(wpost[uid], @, t.msg)]
        /\ waiting_posts' = IF forgets THEN waiting_posts \ {uid}
                            ELSE waiting_posts
        /\ handled' = IF forgets /\ uid \notin waiting_posts
                      THEN [report EXCEPT !.result = "KeyError"]
                      ELSE NotifyListeners(report, t.msg, directory,
                                           rejecting1, rejecting2)
  /\ UNCHANGED <<engine, now, transports, controller, directory, listeners,
                 msg_listeners, waiting_events, cell, wpost, pc, outcome,
                 fired, inv_snapshot, gc_removed, resolver, woke, api, pool,
                 gc_timer, holder, stack, messenger, broker, routed,
                 pool_queue, pool_workers, handed, started, conn,
                 transmitted>>

\* ------------------------------------------------------ MQTT transport

\* Topic constants of models.py, as the list of their parts between '/'.
TOPIC_PREFIX == <<"cohorte", "herald">>
UID_TOPIC == <<"uid">>
GROUP_TOPIC == <<"group">>
RIP_TOPIC == <<"rip">>
\* 'herald/discovery/', the prefix of the subjects of the peer contact
SUBJECT_DISCOVERY_PREFIX == <<"herald", "discovery">>
DiscoveryStep1 == <<"herald", "discovery", "step1">>

\* "/".join(parts): the parts of the joined string are those of its pieces.
RECURSIVE Join(_)
Join(pieces) ==
  IF pieces = <<>> THEN <<>> ELSE Head(pieces) \o Join(Tail(pieces))

\* Messenger.__WILL_TOPIC, __make_uid_topic and __make_group_topic
WILL_TOPIC(peer) == Join(<<TOPIC_PREFIX, peer.app_id, RIP_TOPIC>>)
make_uid_topic(peer, subtopic) ==
  Join(<<TOPIC_PREFIX, peer.app_id, UID_TOPIC, subtopic>>)
make_group_topic(peer, subtopic) ==
  Join(<<TOPIC_PREFIX, peer.app_id, GROUP_TOPIC, subtopic>>)

\* Messenger._on_connect: the topic filters the client subscribes to
Subscriptions(uid, peer) ==
  {make_uid_topic(peer, <<uid>>), make_group_topic(peer, <<"all">>),
   WILL_TOPIC(peer)}
    \cup {make_group_topic(peer, group) : group \in peer.groups}

\* MQTT: a topic filter matches a topic level by level; '+' stands for any
\* one level and '#' for all the remaining ones.
RECURSIVE TopicMatches(_, _)
TopicMatches(filter, topic) ==
  IF filter = <<>> THEN topic = <<>>
  ELSE IF Head(filter) = "#" THEN TRUE
  ELSE /\ topic # <<>>
       /\ Head(filter) \in {"+", Head(topic)}
       /\ TopicMatches(Tail(filter), Tail(topic))

\* MQTT: a message may only be published on a topic without wildcards.
ValidTopic(topic) == \A i \in 1..Len(topic) : topic[i] \notin {"+", "#"}

\* The connected clients to which the broker delivers what is published on
\* the topic.
Subscribers(topic) ==
  {d \in Clients :
     /\ ~IsNone(messenger[d])
     /\ \E filter \in Subscriptions(d, messenger[d][1]) :
          TopicMatches(filter, topic)}

\* mqtt.publish(topic, payload, 1): one delivery for each subscriber
Publish(c, topic, payload) ==
  IF ValidTopic(topic)
  THEN {[topic |-> topic, payload |-> payload, from |-> c,
          app_id |-> messenger[c][1].app_id, to |-> d] :
          d \in Subscribers(topic)}
  ELSE {}

\* MqttTransport.__get_content: the headers are added to the message, which
\* is then dumped; utils.from_json gives them back to the receiver.
Envelope(uid, subject, content, sender_uid, replies_to) ==
  [uid |-> uid, subject |-> subject, content |-> content,
   headers |-> [sender_uid |-> sender_uid, replies_to |-> replies_to]]

\* What a connected peer sends: user messages, the step 1 of the discovery
\* and the directory message that tells it leaves.
Payloads(c) ==
  {Envelope("r1", s, [data |-> "hi"], c, None) :
     s \in {DemoEcho, DiscoveryStep1}}
    \cup {Envelope("r1", DirBye, [peer |-> c], c, None)}

\* The last will of a client: its uid.
Will(c) == [will |-> c]

\* MqttTransport._validate of a remote peer: its Messenger is made for the
\* Peer bean, connects and subscribes, and on_connected fires the step 1 of
\* the discovery to the group "all".
MqttValidate(c, app_id, groups) ==
  /\ c \in Peers
  /\ IsNone(messenger[c])
  /\ Cardinality(broker) < MaxPending
  /\ LET peer == [app_id |-> app_id, groups |-> groups]
         connected == [messenger EXCEPT ![c] = Some(peer)]
         topic == make_group_topic(peer, <<"all">>)
     IN /\ messenger' = connected
        /\ broker' = broker \cup
             {[topic |-> topic,
               payload |-> Envelope("r1", DiscoveryStep1, [data |-> "hi"], c, None),
               from |-> c, app_id |-> app_id, to |-> d] :
                d \in {e \in Clients :
                         /\ ValidTopic(topic)
                         /\ ~IsNone(connected[e])
                         /\ \E filter \in Subscriptions(e, connected[e][1]) :
                              TopicMatches(filter, topic)}}
  /\ UNCHANGED <<engine, now, transports, controller, directory, listeners,
                 msg_listeners, waiting_events, cell, waiting_posts, wpost,
                 pc, outcome, calls, fired, inv_snapshot, inflight,
                 gc_removed, resolver, woke, api, pool, gc_timer, handled,
                 holder, stack, routed, pool_queue, pool_workers, handed,
                 started, conn, transmitted>>

\* MqttTransport.fire -> Messenger.fire(peer_uid, content)
MqttFire(c, peer_uid, payload) ==
  /\ ~IsNone(messenger[c])
  /\ Cardinality(broker) < MaxPending
  /\ broker' = broker \cup
       Publish(c, make_uid_topic(messenger[c][1], <<peer_uid>>), payload)
  /\ UNCHANGED <<engine, now, transports, controller, directory, listeners,
                 msg_listeners, waiting_events, cell, waiting_posts, wpost,
                 pc, outcome, calls, fired, inv_snapshot, inflight,
                 gc_removed, resolver, woke, api, pool, gc_timer, handled,
                 holder, stack, messenger, routed, pool_queue, pool_workers,
                 handed, started, conn, transmitted>>

\* MqttTransport.fire_group -> Messenger.fire_group(group, content)
MqttFireGroup(c, group, payload) ==
  /\ ~IsNone(messenger[c])
  /\ Cardinality(broker) < MaxPending
  /\ broker' = broker \cup
       Publish(c, make_group_topic(messenger[c][1], group), payload)
  /\ UNCHANGED <<engine, now, transports, controller, directory, listeners,
                 msg_listeners, waiting_events, cell, waiting_posts, wpost,
                 pc, outcome, calls, fired, inv_snapshot, inflight,
                 gc_removed, resolver, woke, api, pool, gc_timer, handled,
                 holder, stack, messenger, routed, pool_queue, pool_workers,
                 handed, started, conn, transmitted>>

\* MqttTransport._invalidate of a remote peer -> Messenger.disconnect: the
\* uid is published on the will topic and the client leaves the broker,
\* which does the same for a client whose connection is lost.
MqttDisconnect(c) ==
  /\ c \in Peers
  /\ ~IsNone(messenger[c])
  /\ Cardinality(broker) < MaxPending
  /\ broker' = {item \in broker : item.to # c} \cup
       {item \in Publish(c, WILL_TOPIC(messenger[c][1]), Will(c)) :
          item.to # c}
  /\ messenger' = [messenger EXCEPT ![c] = None]
  /\ UNCHANGED <<engine, now, transports, controller, directory, listeners,
                 msg_listeners, waiting_events, cell, waiting_posts, wpost,
                 pc, outcome, calls, fired, inv_snapshot, inflight,
                 gc_removed, resolver, woke, api, pool, gc_timer, handled,
                 holder, stack, routed, pool_queue, pool_workers, handed,
                 started, conn, transmitted>>

\* Fault injection: a transport that gives its own messages to the engine.
RouteLoopBack(payload, dir) ==
  IF Len(payload.subject) > 2
     /\ SubSeq(payload.subject, 1, 2) = SUBJECT_DISCOVERY_PREFIX
  THEN "contact"
  ELSE IF payload.headers.sender_uid \notin dir \cup {LocalUid} THEN "dropped"
  ELSE "herald"

\* MqttTransport.on_message, lines 140-179: what is done with the message
Route(payload, dir) ==
  IF payload.headers.sender_uid = LocalUid THEN "loopback"
  ELSE IF Len(payload.subject) > 2
          /\ SubSeq(payload.subject, 1, 2) = SUBJECT_DISCOVERY_PREFIX
  THEN "contact"
  ELSE IF payload.headers.sender_uid \notin dir THEN "dropped"
  ELSE "herald"

\* PeerContact.herald_message: the directory after a discovery message,
\* whose sender is registered
ContactAfter(dir, payload) == dir \cup {payload.headers.sender_uid}

\* The MessageReceived bean that on_message makes of the payload
FromPayload(payload) ==
  Received(payload.uid, payload.subject, payload.headers.replies_to,
           payload.content, payload.headers.sender_uid, "mqtt")

\* The report of the _on_message call that handles the delivery: who
\* published and who received, what was done with the message, whether the
\* probe stored it, and the application ids of the publisher and the receiver
RouteReport(item, to) ==
  [client |-> item.to, publisher |-> item.from, to |-> to,
   probed |-> to \in {"contact", "dropped", "herald"},
   apps |-> <<item.app_id, messenger[item.to][1].app_id>>]

\* The broker delivers a message to a remote peer.
DeliverRemote(item) ==
  /\ item \in broker
  /\ item.to # LocalUid
  /\ broker' = broker \ {item}
  /\ routed' = RouteReport(item, "remote")
  /\ UNCHANGED <<engine, now, transports, controller, directory, listeners,
                 msg_listeners, waiting_events, cell, waiting_posts, wpost,
                 pc, outcome, calls, fired, inv_snapshot, inflight,
                 gc_removed, resolver, woke, api, pool, gc_timer, handled,
                 holder, stack, messenger, pool_queue, pool_workers, handed,
                 started, conn, transmitted>>

\* Messenger._on_message of the local peer for a message of its will topic:
\* __handle_will reads on_peer_down of the callback handler, which is the
\* MqttTransport and has no such attribute.
DeliverWill(item) ==
  /\ item \in broker
  /\ item.to = LocalUid
  /\ item.topic = WILL_TOPIC(messenger[LocalUid][1])
  /\ broker' = broker \ {item}
  /\ routed' = RouteReport(item, "AttributeError")
  /\ UNCHANGED <<engine, now, transports, controller, directory, listeners,
                 msg_listeners, waiting_events, cell, waiting_posts, wpost,
                 pc, outcome, calls, fired, inv_snapshot, inflight,
                 gc_removed, resolver, woke, api, pool, gc_timer, handled,
                 holder, stack, messenger, pool_queue, pool_workers, handed,
                 started, conn, transmitted>>

\* Messenger._on_message of the local peer for any other topic, and
\* MqttTransport.on_message with the calls it makes.
DeliverMessage(item, rejecting1, rejecting2) ==
  /\ item \in broker
  /\ item.to = LocalUid
  /\ item.topic # WILL_TOPIC(messenger[LocalUid][1])
  /\ broker' = broker \ {item}
  /\ UNCHANGED <<messenger, pool_queue, handed, transmitted>>
  /\ LET payload == item.payload
         to == Route(payload, directory)
         message == FromPayload(payload)
     IN /\ routed' = RouteReport(item, to)
        /\ CASE to = "herald" ->
                  \/ HandleErrorCall(message)
                  \/ HandleMessageCall(message, rejecting1, rejecting2)
             [] to = "contact" ->
                  /\ directory' = ContactAfter(directory, payload)
                  /\ UNCHANGED <<engine, now, transports, controller,
                                 listeners, msg_listeners, waiting_events,
                                 cell, waiting_posts, wpost, pc, outcome,
                                 calls, fired, inv_snapshot, inflight,
                                 gc_removed, resolver, woke, api, pool,
                                 gc_timer, handled, holder, stack,
                                 pool_workers, started, conn>>
             [] OTHER ->
                  UNCHANGED <<engine, now, transports, controller, directory,
                              listeners, msg_listeners, waiting_events, cell,
                              waiting_posts, wpost, pc, outcome, calls, fired,
                              inv_snapshot, inflight, gc_removed, resolver,
                              woke, api, pool, gc_timer, handled, holder,
                              stack, pool_workers, started, conn>>

\* ------------------------------------- connection of the local peer

\* What the MQTT client of the local peer is asked to do, or what the
\* transport does on its callback.
Did(op, topic, payload) == [op |-> op, topic |-> topic, payload |-> payload]

\* Peer.dump, beans.py lines 165-177: the values of the properties are put
\* in a set, and groups, itself a set, cannot be hashed.
PeerDump(peer) == TypeError

\* MqttTransport.on_connected: the access of the peer is set, the peer is
\* dumped and the step 1 of the discovery is fired to the group "all".
OnConnected(peer) ==
  LET dump == PeerDump(peer)
  IN <<Did("set_access", <<>>, "mqtt"), Did("dump", <<>>, "")>> \o
     IF dump = TypeError
     THEN <<Did("TypeError", <<>>, "")>>
     ELSE <<Did("publish", make_group_topic(peer, <<"all">>),
                DiscoveryStep1)>>

\* The topics Messenger._on_connect subscribes to, in the order of the
\* calls, lines 160-166.
RECURSIVE GroupTopics(_, _)
GroupTopics(peer, groups) ==
  IF groups = {} THEN <<>>
  ELSE LET group == CHOOSE g \in groups : TRUE
       IN <<make_group_topic(peer, group)>> \o
          GroupTopics(peer, groups \ {group})

SubscribeOrder(peer) ==
  <<make_uid_topic(peer, <<LocalUid>>), make_group_topic(peer, <<"all">>),
    WILL_TOPIC(peer)>> \o GroupTopics(peer, peer.groups)

\* MqttTransport._validate of the local peer -> Messenger.connect: the last
\* will is set, the connection is opened and the network loop is started.
LocalValidate ==
  /\ conn = <<>>
  /\ IsNone(messenger[LocalUid])
  /\ conn' = <<Did("will_set", WILL_TOPIC(LocalPeer), LocalUid),
               Did("connect", <<>>, ""), Did("loop_start", <<>>, "")>>
  /\ UNCHANGED <<engine, now, transports, controller, directory, listeners,
                 msg_listeners, waiting_events, cell, waiting_posts, wpost,
                 pc, outcome, calls, fired, inv_snapshot, inflight,
                 gc_removed, resolver, woke, api, pool, gc_timer, handled,
                 holder, stack, messenger, broker, routed, pool_queue,
                 pool_workers, handed, started, transmitted>>

\* Messenger._on_connect, called by the network loop each time the broker
\* accepts the connection, and MqttTransport.on_connected that it calls.
LocalOnConnect ==
  /\ conn # <<>>
  /\ IsNone(messenger[LocalUid])
  /\ LET called == OnConnected(LocalPeer)
         last == called[Len(called)]
         connected == [messenger EXCEPT ![LocalUid] = Some(LocalPeer)]
     IN /\ conn' = SubSeq(conn, 1, 3) \o
                   [i \in 1..Len(SubscribeOrder(LocalPeer)) |->
                      Did("subscribe", SubscribeOrder(LocalPeer)[i], "")] \o
                   called
        /\ messenger' = connected
        /\ broker' =
             IF last.op = "publish"
             THEN broker \cup
                    {[topic |-> last.topic,
                      payload |-> Envelope("r1", last.payload,
                                           [data |-> "hi"], LocalUid, None),
                      from |-> LocalUid, app_id |-> LocalPeer.app_id,
                      to |-> d] :
                       d \in {e \in Clients :
                                /\ ~IsNone(connected[e])
                                /\ \E filter \in
                                       Subscriptions(e, connected[e][1]) :
                                     TopicMatches(filter, last.topic)}}
             ELSE broker
  /\ UNCHANGED <<engine, now, transports, controller, directory, listeners,
                 msg_listeners, waiting_events, cell, waiting_posts, wpost,
                 pc, outcome, calls, fired, inv_snapshot, inflight,
                 gc_removed, resolver, woke, api, pool, gc_timer, handled,
                 holder, stack, routed, pool_queue, pool_workers, handed,
                 started, transmitted>>

\* The connection to the broker is lost: the network loop opens it again,
\* and the broker no longer delivers to the client until then.
ConnectionLost ==
  /\ ~IsNone(messenger[LocalUid])
  /\ conn # <<>>
  /\ messenger' = [messenger EXCEPT ![LocalUid] = None]
  /\ broker' = {item \in broker : item.to # LocalUid}
  /\ conn' = SubSeq(conn, 1, 3)
  /\ UNCHANGED <<engine, now, transports, controller, directory, listeners,
                 msg_listeners, waiting_events, cell, waiting_posts, wpost,
                 pc, outcome, calls, fired, inv_snapshot, inflight,
                 gc_removed, resolver, woke, api, pool, gc_timer, handled,
                 holder, stack, routed, pool_queue, pool_workers, handed,
                 started, transmitted>>

\* ------------------------------------------------ engines face to face

\* The uid of the n-th message that is transmitted.
SentUid(n) == IF n = 1 THEN "r1" ELSE "r2"

\* MqttTransport.fire for the replies the engine of peer c made, those a
\* transport accepted: the deliveries the broker has to make.
RECURSIVE SendReplies(_, _, _, _)
SendReplies(c, to, replies, n) ==
  IF replies = <<>> THEN {}
  ELSE LET r == Head(replies)
           rest == SendReplies(c, to, Tail(replies),
                               IF IsNone(r.via) THEN n ELSE n + 1)
       IN IF IsNone(r.via) THEN rest
          ELSE Publish(c, make_uid_topic(messenger[c][1], <<to>>),
                       Envelope(SentUid(n + 1), r.subject, r.content, c,
                                r.parent))
                 \cup rest

\* The number of replies that a transport accepted.
Accepted(replies) ==
  Cardinality({i \in 1..Len(replies) : ~IsNone(replies[i].via)})

\* handle_message of an engine that has no listener and no waiter, for a
\* message the mqtt transport gives it: the replies it makes.
PeerReplies(c, message) ==
  LET kind == IF IsDirectoryMessage(message) THEN Parts(message.subject)[3]
              ELSE ""
  IN IF IsErrorMessage(message) THEN <<>>
     ELSE IF ~IsNone(DirectoryRaises(kind)) THEN <<>>
     ELSE <<reply(Clients \ {c}, {"mqtt"}, message,
                  [uid |-> message.uid, subject |-> message.subject],
                  ErrNoListener, {}, {}, {})>>

\* The contents of the first message of an exchange.
FirstContent(c, subject) ==
  IF subject \in {DirNewcomer, DirWelcome, DirBye} THEN [peer |-> c]
  ELSE [data |-> "hi"]

\* The application of peer c fires one message to peer d, the only one
\* any application sends.
FirstMessage(c, d, subject) ==
  /\ transmitted = 0
  /\ c # d
  /\ ~IsNone(messenger[c])
  /\ broker' = broker \cup
       Publish(c, make_uid_topic(messenger[c][1], <<d>>),
               Envelope(SentUid(1), subject, FirstContent(c, subject), c,
                        None))
  /\ transmitted' = 1
  /\ UNCHANGED <<engine, now, transports, controller, directory, listeners,
                 msg_listeners, waiting_events, cell, waiting_posts, wpost,
                 pc, outcome, calls, fired, inv_snapshot, inflight,
                 gc_removed, resolver, woke, api, pool, gc_timer, handled,
                 holder, stack, messenger, routed, pool_queue, pool_workers,
                 handed, started, conn>>

\* The broker delivers to the local peer: MqttTransport.on_message gives
\* the message of a known peer to handle_message, and what the engine
\* replies is published.
LocalHandles(item) ==
  /\ item \in broker
  /\ item.to = LocalUid
  /\ item.topic # WILL_TOPIC(messenger[LocalUid][1])
  /\ transmitted < MaxSent
  /\ Route(item.payload, directory) = "herald"
  /\ LET message == FromPayload(item.payload)
     IN /\ routed' = RouteReport(item, "herald")
        /\ \/ HandleErrorCall(message)
           \/ HandleMessageCall(message, {}, {})
        /\ broker' = (broker \ {item}) \cup
             SendReplies(LocalUid, message.sender, handled'.replies,
                         transmitted)
        /\ transmitted' = transmitted + Accepted(handled'.replies)
  /\ UNCHANGED <<messenger, pool_queue, handed>>

\* The broker delivers to a remote peer, whose engine runs the same code.
PeerHandles(item) ==
  /\ item \in broker
  /\ item.to # LocalUid
  /\ transmitted < MaxSent
  /\ LET message == FromPayload(item.payload)
         replies == PeerReplies(item.to, message)
     IN /\ routed' = RouteReport(item, "remote")
        /\ broker' = (broker \ {item}) \cup
             SendReplies(item.to, message.sender, replies, transmitted)
        /\ transmitted' = transmitted + Accepted(replies)
  /\ UNCHANGED <<engine, now, transports, controller, directory, listeners,
                 msg_listeners, waiting_events, cell, waiting_posts, wpost,
                 pc, outcome, calls, fired, inv_snapshot, inflight,
                 gc_removed, resolver, woke, api, pool, gc_timer, handled,
                 holder, stack, messenger, pool_queue, pool_workers, handed,
                 started, conn>>

\* ------------------------------------------------------- worker pool

\* A task of the pool: listener.herald_message(herald, message)
Task(listener, message) == [listener |-> listener, uid |-> message.uid]

\* The messages of peer B that the MQTT transport hands to handle_message.
Deliveries ==
  {Received(u, s, None, [data |-> "hi"], "B", "mqtt") :
     u \in MsgIds, s \in {DemoEcho, NobodyHome}}

\* The listeners that __notify enqueues for the message, lines 460-477, in
\* the order in which the set is iterated.
RECURSIVE Tasks(_, _)
Tasks(found, message) ==
  IF found = {} THEN <<>>
  ELSE LET listener == CHOOSE l \in found : TRUE
       IN <<Task(listener, message)>> \o Tasks(found \ {listener}, message)

\* handle_message called by the thread of the transport, the calls of one
\* transport following one another: the tasks are appended to the queue of
\* the pool (__notify, line 473).
HandleMessagePool(message) ==
  /\ message.uid \notin {handed[i] : i \in 1..Len(handed)}
  /\ HandleMessageCall(message, {}, {})
  /\ handed' = Append(handed, message.uid)
  /\ pool_queue' = pool_queue \o Tasks(handled'.enqueued, message)
  /\ UNCHANGED <<messenger, broker, routed, transmitted>>

\* A worker of the pool that has nothing to do takes the oldest task.
PoolTake ==
  /\ pool = "started"
  /\ pool_queue # <<>>
  /\ Cardinality(pool_workers) < PoolSize
  /\ pool_workers' = pool_workers \cup {[task |-> Head(pool_queue), at |-> "taken"]}
  /\ pool_queue' = Tail(pool_queue)
  /\ UNCHANGED <<engine, now, transports, controller, directory, listeners,
                 msg_listeners, waiting_events, cell, waiting_posts, wpost,
                 pc, outcome, calls, fired, inv_snapshot, inflight,
                 gc_removed, resolver, woke, api, pool, gc_timer, handled,
                 holder, stack, messenger, broker, routed, handed, started,
                 conn, transmitted>>

\* The worker calls the method of the task it took: herald_message begins.
PoolRun(w) ==
  /\ w \in pool_workers
  /\ w.at = "taken"
  /\ pool_workers' = (pool_workers \ {w}) \cup {[w EXCEPT !.at = "running"]}
  /\ started' = Append(started, w.task)
  /\ UNCHANGED <<engine, now, transports, controller, directory, listeners,
                 msg_listeners, waiting_events, cell, waiting_posts, wpost,
                 pc, outcome, calls, fired, inv_snapshot, inflight,
                 gc_removed, resolver, woke, api, pool, gc_timer, handled,
                 holder, stack, messenger, broker, routed, pool_queue, handed,
                 conn, transmitted>>

\* herald_message returns and the worker is free again.
PoolDone(w) ==
  /\ w \in pool_workers
  /\ w.at = "running"
  /\ pool_workers' = pool_workers \ {w}
  /\ UNCHANGED <<engine, now, transports, controller, directory, listeners,
                 msg_listeners, waiting_events, cell, waiting_posts, wpost,
                 pc, outcome, calls, fired, inv_snapshot, inflight,
                 gc_removed, resolver, woke, api, pool, gc_timer, handled,
                 holder, stack, messenger, broker, routed, pool_queue, handed,
                 started, conn, transmitted>>

\* ------------------------------------------------------------ the locks

\* The steps of an engine method that matter to the locking discipline.
Acquire(lock) == [k |-> "acquire", arg |-> lock]
Release(lock) == [k |-> "release", arg |-> lock]
Access(table) == [k |-> "access", arg |-> table]
TransportCall(method) == [k |-> "transport", arg |-> method]
UserCode(method) == [k |-> "user", arg |-> method]
Enqueue(method) == [k |-> "enqueue", arg |-> method]
Wait(what) == [k |-> "wait", arg |-> what]

\* `with self.__post_lock:` and `with self.__listeners_lock:` around `body`
WithPostLock(body) ==
  <<Acquire("__post_lock")>> \o body \o <<Release("__post_lock")>>
WithListenersLock(body) ==
  <<Acquire("__listeners_lock")>> \o body \o <<Release("__listeners_lock")>>

\* Herald.send, lines 640-665: the event is stored, the message fired, the
\* answer awaited and the event deleted.
SendSteps ==
  {<<Access("__waiting_events"), TransportCall("fire"), Wait("event"),
     Access("__waiting_events")>>}

\* Herald.post, lines 687-701: with the clean up when fire raised.
PostSteps ==
  {WithPostLock(<<Access("__waiting_posts")>>) \o <<TransportCall("fire")>>,
   WithPostLock(<<Access("__waiting_posts")>>) \o <<TransportCall("fire")>>
     \o WithPostLock(<<Access("__waiting_posts")>>)}

\* Herald.post_group, lines 724-771
PostGroupSteps ==
  {WithPostLock(<<Access("__waiting_posts")>>)
     \o <<TransportCall("fire_group")>>}

\* Herald.forget, lines 789-803: with and without a waiting post of the uid
ForgetSteps ==
  {<<Access("__waiting_events")>>
     \o WithPostLock(<<Access("__waiting_posts"), UserCode("errback")>>),
   <<Access("__waiting_events")>>
     \o WithPostLock(<<Access("__waiting_posts")>>)}

\* Herald.__notify, lines 438-458: the correlation of a reply. No reply_to;
\* no waiting post; a waiting post that is kept; one that is forgotten.
CorrelateSteps ==
  {<<>>,
   <<Access("__waiting_events")>>
     \o WithPostLock(<<Access("__waiting_posts")>>),
   <<Access("__waiting_events")>>
     \o WithPostLock(<<Access("__waiting_posts")>>)
     \o <<UserCode("callback")>>,
   <<Access("__waiting_events")>>
     \o WithPostLock(<<Access("__waiting_posts")>>)
     \o <<UserCode("callback"), Access("__waiting_posts")>>}

\* Herald.__notify, lines 460-482: the listeners are looked up, then called
\* through the pool, or the no-listener error is sent.
DispatchSteps ==
  {WithListenersLock(<<Access("__msg_listeners")>>)
     \o <<Enqueue("herald_message")>>,
   WithListenersLock(<<Access("__msg_listeners")>>)
     \o <<TransportCall("reply")>>}

\* Herald.handle_message, lines 346-372, for a message that is notified
NotifySteps == {c \o d : c \in CorrelateSteps, d \in DispatchSteps}

\* Herald._handle_error, lines 381-406: with and without a waiting post
HandleErrorSteps ==
  {<<Access("__waiting_events"), Access("__waiting_posts"),
     UserCode("errback")>>,
   <<Access("__waiting_events"), Access("__waiting_posts")>>}

\* Herald.__garbage_collect, lines 339-344
GarbageCollectSteps == {WithPostLock(<<Access("__waiting_posts")>>)}

\* Herald._invalidate, lines 219-230: with and without a waiting post
InvalidateSteps ==
  {<<Access("__waiting_events")>>
     \o WithPostLock(<<Access("__waiting_posts"), UserCode("errback")>>)
     \o <<Access("__waiting_events"), Access("__waiting_posts")>>,
   <<Access("__waiting_events")>>
     \o WithPostLock(<<Access("__waiting_posts")>>)
     \o <<Access("__waiting_events"), Access("__waiting_posts")>>}

\* Herald._bind_listener, _update_listener and _unbind_listener,
\* lines 266-273, 280-310 and 317-332
ListenerSteps == {WithListenersLock(<<Access("__msg_listeners")>>)}

\* The task that __notify gave to the pool, line 473: a worker calls
\* listener.herald_message(herald, message).
TaskSteps == {<<UserCode("herald_message")>>}

\* The engine methods a thread may call, with the paths through each.
Methods ==
  [send |-> SendSteps, post |-> PostSteps, post_group |-> PostGroupSteps,
   forget |-> ForgetSteps, handle_message |-> NotifySteps,
   _handle_error |-> HandleErrorSteps,
   __garbage_collect |-> GarbageCollectSteps,
   _invalidate |-> InvalidateSteps, _bind_listener |-> ListenerSteps,
   pool_task |-> TaskSteps]

\* What a callback, an errback or a listener may call on the engine.
Reentrant == {"post", "forget", "post_group"}

\* The innermost method a thread executes, and the step it has reached.
Top(t) == stack[t][Len(stack[t])]
Busy(t) == stack[t] # <<>>
AtEnd(t) == Busy(t) /\ Top(t).i > Len(Top(t).steps)
AtStep(t, kind) ==
  /\ Busy(t)
  /\ Top(t).i <= Len(Top(t).steps)
  /\ Top(t).steps[Top(t).i].k = kind
StepArg(t) == Top(t).steps[Top(t).i].arg
Held(t) == {l \in LockNames : holder[l] = Some(t)}
Advance(t) ==
  stack' = [stack EXCEPT ![t][Len(stack[t])].i = @ + 1]
Frame(method, steps) == [method |-> method, steps |-> steps, i |-> 1]

\* A thread calls a method of the engine.
MethodCall(t, method, steps) ==
  /\ ~Busy(t)
  /\ steps \in Methods[method]
  /\ stack' = [stack EXCEPT ![t] = <<Frame(method, steps)>>]
  /\ UNCHANGED <<engine, now, transports, controller, directory, listeners,
                 msg_listeners, waiting_events, cell, waiting_posts, wpost,
                 pc, outcome, calls, fired, inv_snapshot, inflight,
                 gc_removed, resolver, woke, api, pool, gc_timer, handled,
                 holder, messenger, broker, routed, pool_queue, pool_workers,
                 handed, started, conn, transmitted>>

\* threading.Lock.acquire(): blocks until the lock is free, whoever holds it
LockAcquire(t) ==
  /\ AtStep(t, "acquire")
  /\ IsNone(holder[StepArg(t)])
  /\ holder' = [holder EXCEPT ![StepArg(t)] = Some(t)]
  /\ Advance(t)
  /\ UNCHANGED <<engine, now, transports, controller, directory, listeners,
                 msg_listeners, waiting_events, cell, waiting_posts, wpost,
                 pc, outcome, calls, fired, inv_snapshot, inflight,
                 gc_removed, resolver, woke, api, pool, gc_timer, handled,
                 messenger, broker, routed, pool_queue, pool_workers, handed,
                 started, conn, transmitted>>

\* threading.Lock.release(), at the end of the `with` block
LockRelease(t) ==
  /\ AtStep(t, "release")
  /\ holder' = [holder EXCEPT ![StepArg(t)] = None]
  /\ Advance(t)
  /\ UNCHANGED <<engine, now, transports, controller, directory, listeners,
                 msg_listeners, waiting_events, cell, waiting_posts, wpost,
                 pc, outcome, calls, fired, inv_snapshot, inflight,
                 gc_removed, resolver, woke, api, pool, gc_timer, handled,
                 messenger, broker, routed, pool_queue, pool_workers, handed,
                 started, conn, transmitted>>

\* A read or an update of a table of the engine, a call of a transport, an
\* enqueue in the pool, the end of a wait.
PlainStep(t) ==
  /\ \E kind \in {"access", "transport", "enqueue", "wait"} : AtStep(t, kind)
  /\ Advance(t)
  /\ UNCHANGED <<engine, now, transports, controller, directory, listeners,
                 msg_listeners, waiting_events, cell, waiting_posts, wpost,
                 pc, outcome, calls, fired, inv_snapshot, inflight,
                 gc_removed, resolver, woke, api, pool, gc_timer, handled,
                 holder, messenger, broker, routed, pool_queue, pool_workers,
                 handed, started, conn, transmitted>>

\* The callback, errback or listener that is running calls the engine.
Reenter(t, method, steps) ==
  /\ AtStep(t, "user")
  /\ Len(stack[t]) < MaxDepth
  /\ method \in Reentrant
  /\ steps \in Methods[method]
  /\ stack' = [stack EXCEPT ![t] = Append(@, Frame(method, steps))]
  /\ UNCHANGED <<engine, now, transports, controller, directory, listeners,
                 msg_listeners, waiting_events, cell, waiting_posts, wpost,
                 pc, outcome, calls, fired, inv_snapshot, inflight,
                 gc_removed, resolver, woke, api, pool, gc_timer, handled,
                 holder, messenger, broker, routed, pool_queue, pool_workers,
                 handed, started, conn, transmitted>>

\* The callback, errback or listener returns.
UserReturn(t) ==
  /\ AtStep(t, "user")
  /\ Advance(t)
  /\ UNCHANGED <<engine, now, transports, controller, directory, listeners,
                 msg_listeners, waiting_events, cell, waiting_posts, wpost,
                 pc, outcome, calls, fired, inv_snapshot, inflight,
                 gc_removed, resolver, woke, api, pool, gc_timer, handled,
                 holder, messenger, broker, routed, pool_queue, pool_workers,
                 handed, started, conn, transmitted>>

\* The method returns to its caller.
MethodReturn(t) ==
  /\ AtEnd(t)
  /\ stack' = [stack EXCEPT ![t] = SubSeq(@, 1, Len(@) - 1)]
  /\ UNCHANGED <<engine, now, transports, controller, directory, listeners,
                 msg_listeners, waiting_events, cell, waiting_posts, wpost,
                 pc, outcome, calls, fired, inv_snapshot, inflight,
                 gc_removed, resolver, woke, api, pool, gc_timer, handled,
                 holder, messenger, broker, routed, pool_queue, pool_workers,
                 handed, started, conn, transmitted>>

\* ------------------------------------------------------- specification

\* The engine in service: validated, the mqtt transport bound, peer B
\* registered in the directory and listener l1 bound with filter demo/*.
Running ==
  /\ engine = "valid"
  /\ now = 0
  /\ transports = {"mqtt"}
  /\ controller = TRUE
  /\ directory = {"B"}
  /\ listeners = [l \in {"l1"} |-> {<<"demo", "*">>}]
  /\ msg_listeners = [p \in {<<"demo", "*">>} |-> {"l1"}]
  /\ waiting_events = {}
  /\ cell = [u \in UIDs |-> NewEventData]
  /\ waiting_posts = {}
  /\ wpost = [u \in UIDs |-> NoPost]
  /\ pc = [u \in UIDs |-> "unused"]
  /\ outcome = [u \in UIDs |-> None]
  /\ calls = [u \in UIDs |-> <<>>]
  /\ fired = {}
  /\ inv_snapshot = {}
  /\ inflight = {}
  /\ gc_removed = {}
  /\ resolver = [u \in UIDs |-> ""]
  /\ woke = [u \in UIDs |-> ""]
  /\ api = NoCall
  /\ pool = "started"
  /\ gc_timer = "started"
  /\ handled = NoReport
  /\ holder = [l \in LockNames |-> None]
  /\ stack = [t \in Threads |-> <<>>]
  /\ messenger = [c \in Clients |-> IF c = LocalUid THEN Some(LocalPeer) ELSE None]
  /\ broker = {}
  /\ routed = NoRoute
  /\ pool_queue = <<>>
  /\ pool_workers = {}
  /\ handed = <<>>
  /\ started = <<>>
  /\ conn = <<>>
  /\ transmitted = 0

\* Replies to the messages sent, and no-listener errors about them.
Answers ==
  {m \in Inbound : /\ m.sender = "B"
                   /\ \/ m.subject = DemoEcho /\ ~IsNone(m.reply_to)
                      \/ m.subject = ErrNoListener}

\* The correlation engine in service: send, post, forget, the answers of
\* the peers and the shutdown, in any interleaving.
\* The uid of the message that is sent with send, and of the one posted.
SendUIDs == {"u1"}
PostUIDs == {"u2"}

Next ==
  \/ \E u \in SendUIDs : SendRegister(u)
  \/ \E u \in SendUIDs, p \in Peers, rej \in SUBSET {"mqtt"} : SendFire(u, p, rej)
  \/ \E u \in SendUIDs : SendWake(u)
  \/ \E u \in SendUIDs : SendTimeout(u)
  \/ \E u \in SendUIDs : SendFinally(u)
  \/ \E u \in PostUIDs, e \in BOOLEAN, f \in BOOLEAN : PostRegister(u, e, None, f)
  \/ \E u \in PostUIDs, p \in Peers, rej \in SUBSET {"mqtt"} : PostFire(u, p, rej)
  \/ \E u \in UIDs : Forget(u)
  \/ InvalidateStart
  \/ InvalidateEvents
  \/ InvalidatePosts
  \/ InvalidateClear
  \/ \E m \in Answers : HandleError(m)
  \/ \E m \in Answers : HandleMessage(m, {}, {})
  \/ \E t \in inflight : NotifyCallback(t, {}, {})

Spec == Running /\ [][Next]_vars

\* Posts with and without deadline, the clock and the garbage collector.
NextGC ==
  \/ Tick
  \/ GarbageCollect
  \/ \E u \in PostUIDs, e \in BOOLEAN, f \in BOOLEAN, t \in Timeouts :
       PostRegister(u, e, t, f)
  \/ \E u \in PostUIDs, p \in Peers : PostFire(u, p, {})
  \/ \E u \in PostUIDs : Forget(u)
  \/ InvalidateStart
  \/ InvalidateEvents
  \/ InvalidatePosts
  \/ InvalidateClear
  \/ \E m \in Answers : HandleError(m)
  \/ \E m \in Answers : HandleMessage(m, {}, {})
  \/ \E t \in inflight : NotifyCallback(t, {}, {})

SpecGC == Running /\ [][NextGC]_vars

\* What the transports called by reply do: the one that delivered the
\* message accepts the reply, or it raises InvalidPeerAccess and so do those
\* of `r[2]` when fire calls them.
Rejections == {<<{}, {}>>} \cup {<<AccessIds, r>> : r \in SUBSET AccessIds}

\* The engine from its construction, with transports and listeners that
\* come and go, peers that are discovered, and every kind of received message.
NextNotify ==
  \/ \E a \in AccessIds : BindTransport(a)
  \/ \E a \in AccessIds : UnbindTransport(a)
  \/ \E l \in Listeners, fs \in SUBSET Patterns : BindListener(l, fs)
  \/ \E l \in Listeners : UnbindListener(l)
  \/ Validate
  \/ \E p \in Peers : PeerDiscovered(p)
  \/ \E m \in Inbound : HandleError(m)
  \/ \E m \in Inbound, r \in Rejections : HandleMessage(m, r[1], r[2])

SpecNotify == Init /\ [][NextNotify]_vars

\* What get_peers_for_group may give: up to MaxGroup distinct peers, in any
\* order of iteration.
GroupOrders ==
  {o \in UNION {[1..n -> GroupPeers] : n \in 0..MaxGroup} :
     \A i, j \in 1..Len(o) : i # j => o[i] # o[j]}

\* A call of Herald.fire_group(group, message)
FireGroup(all_peers, rejecting) ==
  /\ api' = [op |-> "fire_group", peers |-> all_peers,
             result |-> fire_group(all_peers, transports, rejecting)]
  /\ UNCHANGED <<engine, now, transports, controller, directory, listeners,
                 msg_listeners, waiting_events, cell, waiting_posts, wpost,
                 pc, outcome, calls, fired, inv_snapshot, inflight,
                 gc_removed, resolver, woke, pool, gc_timer, handled, holder,
                 stack, messenger, broker, routed, pool_queue, pool_workers,
                 handed, started, conn, transmitted>>

\* Group messages: transports that come and go, and calls of fire_group.
NextGroup ==
  \/ \E a \in AccessIds : BindTransport(a)
  \/ \E a \in AccessIds : UnbindTransport(a)
  \/ \E o \in GroupOrders, r \in SUBSET AccessIds : FireGroup(o, r)

SpecGroup == Init /\ [][NextGroup]_vars

\* The peers that fire and reply are called for: with one access, with two
\* and with none.
TargetPeers == {"B", "C", "D"}

\* What the transports do when they are called: the access ids whose
\* transport raises InvalidPeerAccess and those whose transport raises
\* another error.
Behaviours ==
  {b \in [rejecting : SUBSET AccessIds, failing : SUBSET AccessIds] :
     b.rejecting \cap b.failing = {}}

\* A call of Herald.fire(target, message)
FireCall(target, rejecting, failing) ==
  /\ api' = [op |-> "fire", target |-> target,
             result |-> fire(directory, transports, target, rejecting, failing)]
  /\ UNCHANGED <<engine, now, transports, controller, directory, listeners,
                 msg_listeners, waiting_events, cell, waiting_posts, wpost,
                 pc, outcome, calls, fired, inv_snapshot, inflight,
                 gc_removed, resolver, woke, pool, gc_timer, handled, holder,
                 stack, messenger, broker, routed, pool_queue, pool_workers,
                 handed, started, conn, transmitted>>

\* The messages a listener may reply to: received from any peer through any
\* transport, which may have been unbound since.
Originals ==
  {Received("r1", DemoEcho, None, [data |-> "hi"], p, a) :
     p \in TargetPeers, a \in AccessIds}

\* A call of Herald.reply(message, content) by a listener
ReplyCall(message, rejecting1, rejecting2) ==
  /\ api' = [op |-> "reply", message |-> message,
             result |-> reply(directory, transports, message,
                              [data |-> "re"], <<>>, rejecting1, rejecting2, {})]
  /\ UNCHANGED <<engine, now, transports, controller, directory, listeners,
                 msg_listeners, waiting_events, cell, waiting_posts, wpost,
                 pc, outcome, calls, fired, inv_snapshot, inflight,
                 gc_removed, resolver, woke, pool, gc_timer, handled, holder,
                 stack, messenger, broker, routed, pool_queue, pool_workers,
                 handed, started, conn, transmitted>>

\* The transport multiplex: transports that come and go, peers that are
\* discovered, and calls of fire and reply.
NextMultiplex ==
  \/ \E a \in AccessIds : BindTransport(a)
  \/ \E a \in AccessIds : UnbindTransport(a)
  \/ \E p \in TargetPeers : PeerDiscovered(p)
  \/ \E t \in TargetPeers, b \in Behaviours : FireCall(t, b.rejecting, b.failing)
  \/ \E m \in Originals, r1 \in SUBSET AccessIds, r2 \in SUBSET AccessIds :
       ReplyCall(m, r1, r2)

SpecMultiplex == Init /\ [][NextMultiplex]_vars

\* Replies to the messages sent.
Replies == {m \in Answers : m.subject = DemoEcho}

\* forget: a send and a post to peer B, their replies, and calls of forget
\* at any moment.
NextForget ==
  \/ \E u \in SendUIDs : SendRegister(u)
  \/ \E u \in SendUIDs : SendFire(u, "B", {})
  \/ \E u \in SendUIDs : SendWake(u)
  \/ \E u \in SendUIDs : SendTimeout(u)
  \/ \E u \in SendUIDs : SendFinally(u)
  \/ \E u \in PostUIDs, e \in BOOLEAN, f \in BOOLEAN : PostRegister(u, e, None, f)
  \/ \E u \in PostUIDs : PostFire(u, "B", {})
  \/ \E u \in UIDs : ForgetCall(u)
  \/ \E m \in Replies : HandleMessage(m, {}, {})
  \/ \E t \in inflight : NotifyCallback(t, {}, {})

SpecForget == Running /\ [][NextForget]_vars

\* The messages whose transmission was asked of a transport: those a
\* transport accepted, and those of the calls of fire that have not
\* returned yet, which the transport may have sent already.
Transmitted ==
  fired \cup {u \in UIDs : pc[u] \in {"send_fire", "post_fire"}}

\* The replies peer B makes to them.
RaceReplies ==
  {Received(FreshMsgId, DemoEcho, Some(u), [data |-> "hi"], "B", "mqtt") :
     u \in Transmitted}

\* A send and a post to peer B whose replies come back at any moment after
\* the transport was given the message, even before fire returns.
NextRace ==
  \/ \E u \in SendUIDs : SendRegister(u)
  \/ \E u \in SendUIDs : SendFire(u, "B", {})
  \/ \E u \in SendUIDs : SendWake(u)
  \/ \E u \in SendUIDs : SendTimeout(u)
  \/ \E u \in SendUIDs : SendFinally(u)
  \/ \E u \in PostUIDs, e \in BOOLEAN, f \in BOOLEAN : PostRegister(u, e, None, f)
  \/ \E u \in PostUIDs : PostFire(u, "B", {})
  \/ \E m \in RaceReplies : HandleMessage(m, {}, {})
  \/ \E t \in inflight : NotifyCallback(t, {}, {})

SpecRace == Running /\ [][NextRace]_vars

\* Sends with no timeout to peer B, which may or may not reply, and the
\* shutdown of the engine at any moment: a send may begin as long as
\* _invalidate has not returned.
NextBlocked ==
  \/ engine # "stopped" /\ \E u \in UIDs : SendRegister(u)
  \/ \E u \in UIDs : SendFire(u, "B", {})
  \/ \E u \in UIDs : SendWake(u)
  \/ \E u \in UIDs : SendFinally(u)
  \/ \E m \in Replies : HandleMessage(m, {}, {})
  \/ InvalidateStart
  \/ InvalidateEvents
  \/ InvalidatePosts
  \/ InvalidateClear

\* The threads run: a call of send that can go on does go on, and so does
\* _invalidate once it has begun. Nothing makes peer B reply.
SpecBlocked ==
  /\ Running
  /\ [][NextBlocked]_vars
  /\ \A u \in UIDs : WF_vars(SendFire(u, "B", {}))
  /\ \A u \in UIDs : WF_vars(SendWake(u))
  /\ \A u \in UIDs : WF_vars(SendFinally(u))
  /\ WF_vars(InvalidateEvents)
  /\ WF_vars(InvalidatePosts)
  /\ WF_vars(InvalidateClear)

\* The peers of one application are connected to the broker and know one
\* another, and none of their engines has a listener.
Quiet ==
  /\ engine = "valid"
  /\ now = 0
  /\ transports = {"mqtt"}
  /\ controller = TRUE
  /\ directory = Peers
  /\ listeners = [l \in {} |-> {}]
  /\ msg_listeners = [p \in {} |-> {}]
  /\ waiting_events = {}
  /\ cell = [u \in UIDs |-> NewEventData]
  /\ waiting_posts = {}
  /\ wpost = [u \in UIDs |-> NoPost]
  /\ pc = [u \in UIDs |-> "unused"]
  /\ outcome = [u \in UIDs |-> None]
  /\ calls = [u \in UIDs |-> <<>>]
  /\ fired = {}
  /\ inv_snapshot = {}
  /\ inflight = {}
  /\ gc_removed = {}
  /\ resolver = [u \in UIDs |-> ""]
  /\ woke = [u \in UIDs |-> ""]
  /\ api = NoCall
  /\ pool = "started"
  /\ gc_timer = "started"
  /\ handled = NoReport
  /\ holder = [l \in LockNames |-> None]
  /\ stack = [t \in Threads |-> <<>>]
  /\ messenger = [c \in Clients |-> Some(LocalPeer)]
  /\ broker = {}
  /\ routed = NoRoute
  /\ pool_queue = <<>>
  /\ pool_workers = {}
  /\ handed = <<>>
  /\ started = <<>>
  /\ conn = <<>>
  /\ transmitted = 0

\* The subjects of the first message of an exchange.
FirstSubjects ==
  {DemoEcho, NobodyHome, ErrShort, ErrNoListener, DirNewcomer, DirWelcome,
   DirBye, <<"herald", "error", "other">>, <<"herald", "directory">>}

\* One message is fired by the application of a peer, and the engines
\* handle what the broker delivers to them, which it does in the end.
NextCascade ==
  \/ \E c \in Clients, d \in Clients, subject \in FirstSubjects :
       FirstMessage(c, d, subject)
  \/ \E item \in broker : LocalHandles(item)
  \/ \E item \in broker : PeerHandles(item)

SpecCascade ==
  /\ Quiet
  /\ [][NextCascade]_vars
  /\ WF_vars(\E item \in broker : LocalHandles(item))
  /\ WF_vars(\E item \in broker : PeerHandles(item))

\* No call of the API is in progress, but sends blocked in their wait.
NoCallInProgress ==
  /\ inflight = {}
  /\ \A u \in UIDs : pc[u] \in {"unused", "send_wait", "send_done", "post_done"}

\* The shutdown with no concurrent call: sends, posts and replies while the
\* engine is in service, then _invalidate from its first step to its last
\* with only the blocked sends waking up, then late replies.
NextShutdown ==
  \/ engine = "valid" /\ \E u \in SendUIDs : SendRegister(u)
  \/ engine = "valid" /\ \E u \in SendUIDs : SendFire(u, "B", {})
  \/ \E u \in SendUIDs : SendWake(u)
  \/ \E u \in SendUIDs : SendFinally(u)
  \/ engine = "valid" /\ \E u \in PostUIDs, e \in BOOLEAN, f \in BOOLEAN :
       PostRegister(u, e, None, f)
  \/ engine = "valid" /\ \E u \in PostUIDs : PostFire(u, "B", {})
  \/ engine \in {"valid", "stopped"} /\ \E m \in Replies : HandleMessage(m, {}, {})
  \/ engine \in {"valid", "stopped"} /\ \E t \in inflight : NotifyCallback(t, {}, {})
  \/ NoCallInProgress /\ InvalidateStart
  \/ InvalidateEvents
  \/ InvalidatePosts
  \/ InvalidateClear

SpecShutdown == Running /\ [][NextShutdown]_vars

\* The threads of the process in the methods of the engine, step by step,
\* with the locks they take.
NextLocks ==
  \/ \E t \in Threads, method \in DOMAIN Methods :
       \E steps \in Methods[method] : MethodCall(t, method, steps)
  \/ \E t \in Threads : LockAcquire(t)
  \/ \E t \in Threads : LockRelease(t)
  \/ \E t \in Threads : PlainStep(t)
  \/ \E t \in Threads, method \in Reentrant :
       \E steps \in Methods[method] : Reenter(t, method, steps)
  \/ \E t \in Threads : UserReturn(t)
  \/ \E t \in Threads : MethodReturn(t)

SpecLocks == Running /\ [][NextLocks]_vars

\* The local peer and the remote peers on the MQTT broker: the peers
\* connect, publish and leave, and the broker delivers.
NextMqtt ==
  \/ \E c \in Peers, a \in AppIds : MqttValidate(c, a, {})
  \/ \E c \in Clients : \E d \in Clients \ {c}, payload \in Payloads(c) :
       MqttFire(c, d, payload)
  \/ \E c \in Clients, g \in GroupNames \cup {<<"all">>} :
       \E payload \in Payloads(c) : MqttFireGroup(c, g, payload)
  \/ \E c \in Peers : MqttDisconnect(c)
  \/ \E item \in broker : DeliverRemote(item)
  \/ \E item \in broker : DeliverWill(item)
  \/ \E item \in broker : DeliverMessage(item, {}, {})

SpecMqtt == Running /\ [][NextMqtt]_vars

\* The engine runs and the MQTT transport of the local peer is about to be
\* validated.
Validating ==
  /\ engine = "valid"
  /\ now = 0
  /\ transports = {"mqtt"}
  /\ controller = TRUE
  /\ directory = {"B"}
  /\ listeners = [l \in {"l1"} |-> {<<"demo", "*">>}]
  /\ msg_listeners = [p \in {<<"demo", "*">>} |-> {"l1"}]
  /\ waiting_events = {}
  /\ cell = [u \in UIDs |-> NewEventData]
  /\ waiting_posts = {}
  /\ wpost = [u \in UIDs |-> NoPost]
  /\ pc = [u \in UIDs |-> "unused"]
  /\ outcome = [u \in UIDs |-> None]
  /\ calls = [u \in UIDs |-> <<>>]
  /\ fired = {}
  /\ inv_snapshot = {}
  /\ inflight = {}
  /\ gc_removed = {}
  /\ resolver = [u \in UIDs |-> ""]
  /\ woke = [u \in UIDs |-> ""]
  /\ api = NoCall
  /\ pool = "started"
  /\ gc_timer = "started"
  /\ handled = NoReport
  /\ holder = [l \in LockNames |-> None]
  /\ stack = [t \in Threads |-> <<>>]
  /\ messenger = [c \in Clients |-> None]
  /\ broker = {}
  /\ routed = NoRoute
  /\ pool_queue = <<>>
  /\ pool_workers = {}
  /\ handed = <<>>
  /\ started = <<>>
  /\ conn = <<>>
  /\ transmitted = 0

\* The local peer connects to the broker, loses the connection and gets
\* it back, while the remote peers connect, publish and leave.
NextConnect ==
  \/ LocalValidate
  \/ LocalOnConnect
  \/ ConnectionLost
  \/ \E c \in Peers, a \in AppIds : MqttValidate(c, a, {})
  \/ \E c \in Clients : \E d \in Clients \ {c}, payload \in Payloads(c) :
       MqttFire(c, d, payload)
  \/ \E c \in Peers : MqttDisconnect(c)
  \/ \E item \in broker : DeliverRemote(item)
  \/ \E item \in broker : DeliverWill(item)
  \/ \E item \in broker : DeliverMessage(item, {}, {})

SpecConnect == Validating /\ [][NextConnect]_vars

\* The MQTT transport hands messages to the engine one after the other, the
\* listeners come and go, and the workers of the pool call them.
NextPool ==
  \/ \E m \in Deliveries : HandleMessagePool(m)
  \/ PoolTake
  \/ \E w \in pool_workers : PoolRun(w)
  \/ \E w \in pool_workers : PoolDone(w)
  \/ \E l \in Listeners, fs \in SUBSET Patterns : BindListener(l, fs)
  \/ \E l \in Listeners : UnbindListener(l)

SpecPool == Running /\ [][NextPool]_vars

\* The errors the engine of peer B makes when it has no listener for the
\* subject of a message it was sent.
NoListenerErrors ==
  {m \in Answers : /\ m.subject = ErrNoListener
                   /\ DOMAIN m.content = {"uid", "subject"}}

\* Several requests pending at once: each message is sent, posted or
\* posted to the group, a posted bean may be sent again, and the answers of
\* peer B arrive in any order, the transport handing them over one at a
\* time.
NextCorrelate ==
  \/ \E u \in UIDs : SendRegister(u)
  \/ \E u \in UIDs : SendPosted(u)
  \/ \E u \in UIDs : SendFire(u, "B", {})
  \/ \E u \in UIDs, e \in BOOLEAN, f \in BOOLEAN : PostRegister(u, e, None, f)
  \/ \E u \in UIDs : PostFire(u, "B", {})
  \/ \E u \in UIDs, e \in BOOLEAN : PostGroup(u, e, None, <<"B">>, {})
  \/ \E m \in NoListenerErrors : HandleError(m)
  \/ inflight = {} /\ \E m \in Replies : HandleMessage(m, {}, {})
  \/ \E t \in inflight : NotifyCallback(t, {}, {})

SpecCorrelate == Running /\ [][NextCorrelate]_vars

\* Two listeners whose filters overlap are bound, updated and unbound, and
\* the messages of peer B are handed to the engine.
NextListeners ==
  \/ \E l \in Services, fs \in SUBSET Filters : BindListener(l, fs)
  \/ \E l \in Services, fs \in SUBSET Filters : UpdateListener(l, fs)
  \/ \E l \in Services : UnbindListener(l)
  \/ \E m \in Deliveries : HandleMessagePool(m)

SpecListeners == Running /\ [][NextListeners]_vars

\* ------------------------------------------------------------- claims

\* C1: each waiter is resolved exactly once. For a post made with
\* forget_on_first, the callback and the errback are invoked at most once in
\* total, whatever replies, errors, forget and the shutdown race.
C1_ResolvedOnce ==
  \A u \in UIDs : wpost[u].forget_on_first => Len(calls[u]) <= 1

\* C2: when send has returned or raised, by whichever exit path, its uid is
\* no longer in the table of sync-waiters; the table is empty after a lone
\* send timed out.
C2_SendCleansUp ==
  \A u \in UIDs :
    pc[u] = "send_done" =>
      /\ u \notin waiting_events
      /\ (outcome[u] = Some(Raised(TimeoutReached))
            /\ \A v \in UIDs \ {u} : pc[v] \notin {"send_fire", "send_wait",
                                                  "send_finally"})
           => waiting_events = {}

C2_Witness ==
  \E u \in UIDs : /\ pc[u] = "send_done"
                  /\ u \in fired
                  /\ outcome[u] = Some(Raised(TimeoutReached))
                  /\ waiting_events = {}

C4_NoListenerReply ==
  [][\A m \in Inbound, r \in Rejections :
       (handled'.subject = m.subject /\ HandleMessage(m, r[1], r[2])) =>
         LET declared == UNION {listeners[l] : l \in DOMAIN listeners}
             matching == \E f \in declared : match(f, m.subject)
             internal == m.subject[1] = "herald"
             replies == handled'.replies
         IN /\ matching =>
                 \A i \in 1..Len(replies) : replies[i].subject # ErrNoListener
            /\ (~matching /\ ~internal) =>
                 /\ Len(replies) = 1
                 /\ replies[1].subject = <<"herald", "error", "no-listener">>
                 /\ replies[1].content = [uid |-> m.uid, subject |-> m.subject]
    ]_vars

C4_Witness ==
  /\ handled.subject = NobodyHome
  /\ Len(handled.replies) = 1
  /\ handled.replies[1].subject = ErrNoListener
  /\ handled.replies[1].via # None

\* C5: a received message whose subject begins with herald/ never gets a
\* no-listener error reply, even when no listener matches.
C5_NoReplyForInternal ==
  (handled.subject # <<>> /\ handled.subject[1] = "herald") =>
    \A i \in 1..Len(handled.replies) :
      handled.replies[i].subject # ErrNoListener

\* C6: a message of subject herald/error/<kind> or herald/directory/<kind>
\* goes to the internal handler and handle_message returns without the
\* notification pipeline: no waiter looked up, no listener scheduled, no
\* error reply.
C6_InternalDispatch ==
  (/\ Len(handled.subject) >= 3
   /\ handled.subject[1] = "herald"
   /\ handled.subject[2] \in {"error", "directory"}) =>
    /\ ~handled.notify
    /\ handled.enqueued = {}
    /\ handled.replies = <<>>

\* C7: a herald/error/no-listener message whose content has uid and subject
\* releases the send waiting on uid with NoListener(uid, subject), calls the
\* errback of the post waiting on uid with it, and removes uid from both
\* tables; when the content lacks a key or nobody waits on uid, both tables
\* are unchanged.
C7_HandleError ==
  [][\A m \in ErrorMessages :
       (handled' = Report(m) /\ HandleError(m)) =>
         LET c == m.content
             complete == /\ m.subject = <<"herald", "error", "no-listener">>
                         /\ {"uid", "subject"} \subseteq DOMAIN c
         IN IF complete
            THEN /\ waiting_events' = waiting_events \ {c.uid}
                 /\ waiting_posts' = waiting_posts \ {c.uid}
                 /\ c.uid \in waiting_events =>
                      /\ cell'[c.uid].isSet
                      /\ cell'[c.uid].exception =
                           <<"NoListener", c.uid, c.subject>>
                 /\ (/\ c.uid \in waiting_posts
                     /\ wpost[c.uid].errback
                     /\ Len(calls[c.uid]) < MaxCalls) =>
                      calls'[c.uid] =
                        Append(calls[c.uid],
                               <<"errback", <<"NoListener", c.uid, c.subject>>>>)
                 /\ (c.uid \notin waiting_events /\ c.uid \notin waiting_posts)
                      => (cell' = cell /\ calls' = calls)
            ELSE /\ waiting_events' = waiting_events
                 /\ waiting_posts' = waiting_posts
                 /\ cell' = cell
                 /\ calls' = calls
    ]_vars

C7_Witness ==
  /\ handled.subject = ErrNoListener
  /\ \E u \in UIDs : /\ cell[u].exception = NoListener(u, SubjectOf(u))
                     /\ u \notin waiting_events
  /\ \E v \in UIDs : /\ calls[v] = <<<<"errback", NoListener(v, SubjectOf(v))>>>>
                     /\ v \notin waiting_posts

\* C8: when fire fails inside post, the waiter is removed and the failure
\* is propagated to the caller of post.
C8_PostPropagates ==
  \A u \in UIDs :
    (pc[u] = "post_done" /\ u \notin fired) =>
      /\ u \notin waiting_posts
      /\ outcome[u] # None
      /\ outcome[u][1].kind = "raise"

\* C9: a sweep of the garbage collector removes exactly the async-waiters
\* that have a deadline and whose deadline is reached (now >= deadline),
\* and keeps those without deadline or with a deadline in the future.
C9_RemovesExpired ==
  [][GarbageCollect =>
       waiting_posts' =
         {u \in waiting_posts :
            ~(wpost[u].deadline # None /\ now >= wpost[u].deadline[1])}
    ]_vars

\* C10: the garbage collector is silent: the sweep that removes a waiter
\* calls neither its callback nor its errback, and nothing calls them
\* afterwards: a reply handled after the sweep finds no waiter.
C10_SilentGC ==
  [][\A u \in UIDs :
       /\ (u \in waiting_posts /\ u \in gc_removed' /\ u \notin gc_removed)
            => calls'[u] = calls[u]
       /\ (u \in gc_removed /\ ~\E t \in inflight : t.msg.reply_to = Some(u))
            => /\ calls'[u] = calls[u]
               /\ ~\E t \in inflight' : t.msg.reply_to = Some(u)
    ]_vars

C10_Witness ==
  \E u \in gc_removed : /\ wpost[u].errback
                        /\ calls[u] = <<>>
                        /\ u \in fired
                        /\ handled.subject = DemoEcho
                        /\ handled.notify
                        /\ inflight = {}

\* The peers of the group of the last fire_group call, and those that the
\* successful calls of transport.fire_group covered.
GroupOf(call) == {call.peers[i] : i \in 1..Len(call.peers)}
CoveredBy(call) ==
  UNION {call.result.covered[i].peers : i \in 1..Len(call.result.covered)}

\* C11: the unreached set that fire_group returns holds no peer that was in
\* the peer set of a successful transport.fire_group call, and the union of
\* the covered sets is peers(group) minus unreached.
C11_GroupCoverage ==
  (api.op = "fire_group" /\ api.result.exception = None) =>
    /\ api.result.unreached \cap CoveredBy(api) = {}
    /\ CoveredBy(api) = GroupOf(api) \ api.result.unreached

\* C12: when a transport is bound and some peers of the group are never
\* covered, fire_group returns normally and those peers are in unreached.
C12_GroupReturns ==
  (api.op = "fire_group" /\ api.result.exception # NoTransport) =>
    /\ api.result.exception = None
    /\ (GroupOf(api) \ CoveredBy(api)) \subseteq api.result.unreached

\* The access ids of a peer, as a set.
AccessSet(p) == {get_accesses(p)[i] : i \in 1..Len(get_accesses(p))}

\* C13: with transports that accept or raise InvalidPeerAccess, fire returns
\* message.uid if and only if an access of the resolved peer has a bound
\* transport that accepts the message, and raises NoTransport otherwise: no
\* transport bound, no access with a bound transport, or every tried
\* transport raised InvalidPeerAccess.
C13_FireMultiplex ==
  [][\A t \in TargetPeers, r \in SUBSET AccessIds :
       (api'.op = "fire" /\ t \in directory /\ FireCall(t, r, {})) =>
         LET accepted == (AccessSet(t) \cap transports) \ r
         IN /\ (api'.result.exception = None) <=> (accepted # {})
            /\ accepted # {} => /\ api'.result.via # None
                                /\ api'.result.via[1] \in accepted
            /\ accepted = {} => api'.result.exception = <<"NoTransport">>
    ]_vars

C13_Witness ==
  /\ api.op = "fire"
  /\ api.target = "C"
  /\ api.result.via = Some("mqtt")
  /\ api.result.tried = <<"other", "mqtt">>

\* C14: when a transport of fire raises an error other than
\* InvalidPeerAccess, the accesses that remain are still tried, and the
\* caller sees NoTransport if none succeeds, never the error of the
\* transport.
C14_FireKeepsTrying ==
  [][\A t \in TargetPeers, b \in Behaviours :
       (api'.op = "fire" /\ t \in directory
          /\ FireCall(t, b.rejecting, b.failing)) =>
         LET accepted == (AccessSet(t) \cap transports)
                           \ (b.rejecting \cup b.failing)
         IN /\ api'.result.exception \in {None, <<"NoTransport">>}
            /\ accepted # {} => api'.result.exception = None
    ]_vars

\* C15: forget(uid) removes the sync-waiter and the async-waiter of uid,
\* raises ForgotMessage(uid) through them (the event of the blocked send
\* raises it, the errback of the post is called once with it) and returns
\* true iff something was removed; a second forget(uid) returns false and
\* calls nothing; a reply for uid handled after forget calls nothing.
C15_Forget ==
  [][\A u \in UIDs :
       /\ (api'.op = "forget" /\ api'.uid = u /\ ForgetCall(u)) =>
            LET removed == u \in waiting_events \/ u \in waiting_posts
            IN /\ u \notin waiting_events' /\ u \notin waiting_posts'
               /\ api'.result = removed
               /\ u \in waiting_events =>
                    /\ cell'[u].isSet
                    /\ cell'[u].exception = <<"ForgotMessage", u>>
               /\ (u \in waiting_posts /\ wpost[u].errback
                     /\ Len(calls[u]) < MaxCalls) =>
                    calls'[u] = Append(calls[u],
                                       <<"errback", <<"ForgotMessage", u>>>>)
               /\ ~removed => (cell' = cell /\ calls' = calls)
               /\ (api.op = "forget" /\ api.uid = u /\ api.result) =>
                    (~api'.result /\ calls' = calls)
       /\ (/\ api.op = "forget" /\ api.uid = u /\ api.result
           /\ ~\E t \in inflight : t.msg.reply_to = Some(u)) =>
            /\ calls'[u] = calls[u]
            /\ ~\E t \in inflight' : t.msg.reply_to = Some(u)
    ]_vars

C15_Witness ==
  /\ api = [op |-> "forget", uid |-> "u2", result |-> FALSE]
  /\ calls["u2"] = <<<<"errback", ForgotMessage("u2")>>>>
  /\ fired = {"u2"}
  /\ handled.subject = DemoEcho
  /\ handled.notify
  /\ inflight = {}

\* C16: reply first uses the transport bound under the access of the
\* original message, with its extra; only when that transport is no longer
\* bound or raises InvalidPeerAccess does it fall back to fire to the sender,
\* and a sender the directory does not know gives NoTransport, not KeyError.
\* When the first attempt succeeds, fire is not called.
C16_ReplyFallback ==
  [][\A m \in Originals, r1 \in SUBSET AccessIds, r2 \in SUBSET AccessIds :
       (api'.op = "reply" /\ ReplyCall(m, r1, r2)) =>
         LET direct == m.access \in transports /\ m.access \notin r1
             accepted == (AccessSet(m.sender) \cap transports) \ r2
             result == api'.result
         IN /\ direct => /\ result.via = Some(m.access)
                         /\ result.parent = Some(m.uid)
                         /\ ~result.fallback
                         /\ result.exception = None
            /\ ~direct => /\ result.fallback
                          /\ result.exception \in {None, <<"NoTransport">>}
            /\ (~direct /\ m.sender \notin directory) =>
                 (result.exception = <<"NoTransport">> /\ result.via = None)
            /\ (~direct /\ m.sender \in directory) =>
                 /\ (result.exception = None) <=> (accepted # {})
                 /\ accepted # {} => /\ result.via # None
                                     /\ result.via[1] \in accepted
    ]_vars

C16_Witness ==
  /\ api.op = "reply"
  /\ api.message.sender \notin directory
  /\ api.message.access = "other"
  /\ transports = {"mqtt"}
  /\ api.result.fallback
  /\ api.result.exception = NoTransport

\* C17: after any sequence of bindings and unbindings of transports, the
\* controller flag is true if and only if at least one transport is bound.
C17_Controller == controller <=> (transports # {})

C17_Witness ==
  /\ api.op = "fire"
  /\ api.result.via # None
  /\ transports = {}
  /\ ~controller

\* The shutdown of the engine has started.
ShuttingDown == engine \in {"inv_events", "inv_posts", "inv_clear", "stopped"}

\* C18: once _invalidate has started, a new call of send or post is
\* rejected: no waiter is registered for it.
C18_RejectsNewCalls ==
  [][\A u \in UIDs :
       (ShuttingDown /\ pc[u] = "unused") =>
         (u \notin waiting_events' /\ u \notin waiting_posts')
    ]_vars

\* C19: the shutdown stops the GC timer first, then sets the sync-waiters
\* with None, then calls the errbacks of the async-waiters, and stops the
\* worker pool only after that.
C19_ShutdownOrder ==
  /\ engine \in {"inv_events", "inv_posts"} =>
       (gc_timer = "none" /\ pool = "started")
  /\ engine \in {"inv_clear", "stopped"} =>
       (gc_timer = "none" /\ pool = "stopped")

\* C20: when the shutdown runs with no concurrent call, every pending send
\* is released with the None sentinel, the errback of every pending post is
\* called exactly once, with HeraldTimeout("Herald stops listening to
\* messages"), both tables are empty when it completes, and no callback or
\* errback is called afterwards.
C20_Shutdown ==
  [][/\ InvalidateEvents =>
          \A u \in waiting_events :
            /\ cell'[u].isSet
            /\ cell'[u].data = None
            /\ cell'[u].exception = None
     /\ InvalidatePosts =>
          \A u \in waiting_posts :
            /\ \A i \in 1..Len(calls[u]) : calls[u][i][1] # "errback"
            /\ (wpost[u].errback /\ Len(calls[u]) < MaxCalls) =>
                 calls'[u] =
                   Append(calls[u],
                          <<"errback",
                            <<"HeraldTimeout",
                              "Herald stops listening to messages">>>>)
     /\ InvalidateClear => (waiting_events' = {} /\ waiting_posts' = {})
     /\ engine = "stopped" =>
          /\ waiting_events' = {} /\ waiting_posts' = {}
          /\ calls' = calls
    ]_vars

C20_Witness ==
  /\ engine = "stopped"
  /\ waiting_events = {} /\ waiting_posts = {}
  /\ pc["u1"] = "send_done"
  /\ outcome["u1"] = Some(Raised(StopsListening))
  /\ calls["u2"] = <<<<"errback", StopsListening>>>>
  /\ handled.subject = DemoEcho
  /\ handled.notify

\* A thread that waits for a lock it holds itself: threading.Lock is not
\* reentrant, so the thread never proceeds.
SelfDeadlock(t) ==
  AtStep(t, "acquire") /\ holder[StepArg(t)] = Some(t)

\* C21: a thread that is calling a transport, or is inside a callback, an
\* errback or a listener, holds neither the listeners lock nor the post lock;
\* and a callback or errback that calls post, forget or post_group on the
\* engine is never left waiting for a lock its own thread holds.
C21_NoLockAcrossCalls ==
  \A t \in Threads :
    /\ (AtStep(t, "user") \/ AtStep(t, "transport")) => Held(t) = {}
    /\ ~SelfDeadlock(t)

\* The two correlation tables of the engine.
Tables == {"__waiting_events", "__waiting_posts"}

\* C22: each correlation table has one lock, and a thread that inserts
\* into, looks up, removes from or clears the table holds that lock.
C22_TablesLocked ==
  \E lock_of \in [Tables -> LockNames] :
    \A t \in Threads :
      (AtStep(t, "access") /\ StepArg(t) \in Tables)
        => holder[lock_of[StepArg(t)]] = Some(t)

\* C23: when the local peer receives the uid of a peer on its last-will
\* topic, the uid is unregistered: the directory does not know it afterwards
\* and fire to it raises without a transport being called.
C23_WillUnregisters ==
  [][\A item \in broker :
       DeliverWill(item) =>
         /\ item.payload.will \notin directory'
         /\ ~IsNone(fire(directory', transports', item.payload.will,
                         {}, {}).exception)]_vars

\* "subject starts with herald/discovery/"
IsDiscovery(subject) ==
  Len(subject) >= 3 /\ subject[1] = "herald" /\ subject[2] = "discovery"

\* C24: the MQTT transport of the local peer gives a received message to
\* handle_message if and only if its sender is not the local peer, its
\* subject is not a discovery subject and the directory knows its sender. A
\* message of the local peer has no effect at all, a discovery message goes
\* to the peer contact only, and any other message of an unknown sender is
\* dropped: in these three cases the engine is left as it was.
C24_OnMessage ==
  [][\A item \in broker :
       (routed'.client = LocalUid /\ DeliverMessage(item, {}, {})) =>
         LET payload == item.payload
             sender == payload.headers.sender_uid
             discovery == IsDiscovery(payload.subject)
             known == sender \in directory
             engine_untouched ==
               UNCHANGED <<handled, inflight, waiting_events, waiting_posts,
                           cell, calls, resolver>>
         IN /\ routed'.to = "herald"
                 <=> (sender # LocalUid /\ ~discovery /\ known)
            /\ routed'.to = "herald" =>
                 /\ handled'.subject = payload.subject
                 /\ handled'.result # "none"
            /\ sender = LocalUid =>
                 /\ routed'.to = "loopback" /\ ~routed'.probed
                 /\ engine_untouched /\ UNCHANGED directory
            /\ (sender # LocalUid /\ discovery) =>
                 /\ routed'.to = "contact"
                 /\ engine_untouched
            /\ (sender # LocalUid /\ ~discovery /\ ~known) =>
                 /\ routed'.to = "dropped"
                 /\ engine_untouched /\ UNCHANGED directory]_vars

\* A message of the known peer B was given to handle_message, which had the
\* listener of its subject called.
C24_Witness ==
  /\ routed.client = LocalUid
  /\ routed.publisher = "B"
  /\ routed.to = "herald"
  /\ handled.subject = DemoEcho
  /\ handled.enqueued = {"l1"}

\* Whether the topic is one of the layout <prefix>/<app_id>/...
HasAppId(topic, app_id) ==
  /\ Len(topic) > Len(TOPIC_PREFIX) + Len(app_id)
  /\ SubSeq(topic, 1, Len(TOPIC_PREFIX)) = TOPIC_PREFIX
  /\ SubSeq(topic, Len(TOPIC_PREFIX) + 1, Len(TOPIC_PREFIX) + Len(app_id))
       = app_id

\* C25: every topic a peer subscribes to or publishes on holds the
\* application id of that peer, and what a peer of one application id
\* published is never delivered to a peer of another application id.
C25_AppIsolation ==
  /\ \A c \in Clients :
       ~IsNone(messenger[c]) =>
         \A topic \in Subscriptions(c, messenger[c][1]) :
           HasAppId(topic, messenger[c][1].app_id)
  /\ \A item \in broker : HasAppId(item.topic, item.app_id)
  /\ routed.to # "none" => routed.apps[1] = routed.apps[2]

\* C26: the messages that one transport handed to handle_message and that
\* one listener receives reach the listener in the order in which they were
\* handed: herald_message begins for them in that order.
C26_ListenerOrder ==
  \A i, j \in 1..Len(started) :
    (i < j /\ started[i].listener = started[j].listener) =>
      \A a, b \in 1..Len(handed) :
        (handed[a] = started[i].uid /\ handed[b] = started[j].uid) => a < b

\* The waiters registered under `v`, and what was done with them, are the
\* same before and after the step.
Untouched(v) ==
  /\ (v \in waiting_events') = (v \in waiting_events)
  /\ (v \in waiting_posts') = (v \in waiting_posts)
  /\ cell'[v] = cell[v]
  /\ wpost'[v] = wpost[v]
  /\ calls'[v] = calls[v]
  /\ resolver'[v] = resolver[v]

\* C27: with several sends and posts pending, a received message whose
\* reply_to is u releases the send waiting under u with that message and
\* looks up the post waiting under u, whose callback alone is then called;
\* the waiters of every other uid are left as they were, in whatever order
\* the answers arrive. A no-listener error likewise touches only the
\* waiters of the uid it names.
C27_CorrelatedByUid ==
  [][/\ \A m \in Replies :
          HandleMessage(m, {}, {}) =>
            LET u == m.reply_to[1]
            IN /\ \A v \in UIDs \ {u} : Untouched(v)
               /\ u \in waiting_events =>
                    u \notin waiting_events' /\ cell'[u] = EventSet(Some(m))
               /\ u \in waiting_posts => [msg |-> m] \in inflight'
               /\ u \notin waiting_events \cup waiting_posts => Untouched(u)
     /\ \A t \in inflight :
          NotifyCallback(t, {}, {}) =>
            \A v \in UIDs \ {t.msg.reply_to[1]} : Untouched(v)
     /\ \A m \in NoListenerErrors :
          HandleError(m) => \A v \in UIDs \ {m.content.uid} : Untouched(v)
    ]_vars

\* Two sends are pending, the reply to one of them has arrived and released
\* it, and the other is still waiting.
C27_Witness ==
  \E u, v \in UIDs :
    /\ u # v
    /\ pc[u] = "send_wait" /\ pc[v] = "send_wait"
    /\ u \in waiting_events /\ ~cell[u].isSet
    /\ v \notin waiting_events /\ resolver[v] = "reply"
    /\ ~IsNone(cell[v].data) /\ cell[v].data[1].reply_to = Some(v)

\* C28: no uid is a key of both correlation tables.
C28_OneTable == waiting_events \cap waiting_posts = {}

\* C29: a waiter that does not forget on the first reply, as every waiter
\* of post_group, leaves the table only by forget, the garbage collector or
\* the shutdown; each reply to its message calls its callback; and a waiter
\* of post with forget_on_first leaves the table with its first reply.
C29_GroupWaiterStays ==
  [][/\ \A u \in UIDs :
          (/\ u \in waiting_posts
           /\ ~wpost[u].forget_on_first
           /\ u \notin waiting_posts')
            => Forget(u) \/ GarbageCollect \/ InvalidateClear
     /\ \A t \in inflight :
          NotifyCallback(t, {}, {}) =>
            LET u == t.msg.reply_to[1]
            IN /\ calls'[u] =
                    Logged(calls[u], <<"callback", <<"reply", t.msg.uid>>>>)
               /\ wpost[u].forget_on_first => u \notin waiting_posts'
    ]_vars

\* C30: when __notify has found the waiting post of a reply, the callback
\* of the post is called with the reply, whether or not the post has an
\* errback.
C30_CallbackCalled ==
  [][\A t \in inflight :
       NotifyCallback(t, {}, {}) =>
         calls'[t.msg.reply_to[1]] =
           Logged(calls[t.msg.reply_to[1]],
                  <<"callback", <<"reply", t.msg.uid>>>>)
    ]_vars

\* C31: when fire succeeds, the transports it called are those of the
\* accesses of the peer that have a bound transport, in the order of
\* get_accesses, up to the first that accepted: the ones before it raised
\* InvalidPeerAccess, it is the only one that accepted, no transport of a
\* later access was called, and the accesses without a bound transport were
\* passed over.
C31_FirstAccepting ==
  [][\A t \in TargetPeers, b \in Behaviours :
       (api'.op = "fire" /\ t \in directory
          /\ FireCall(t, b.rejecting, b.failing)
          /\ api'.result.exception = None) =>
         LET bound == SelectSeq(get_accesses(t), LAMBDA a : a \in transports)
             tried == api'.result.tried
             k == Len(tried)
         IN /\ k \in 1..Len(bound)
            /\ tried = SubSeq(bound, 1, k)
            /\ api'.result.via = Some(bound[k])
            /\ bound[k] \notin b.rejecting \cup b.failing
            /\ \A i \in 1..(k - 1) : bound[i] \in b.rejecting
    ]_vars

\* fire to peer C, whose accesses are other then mqtt, with both transports
\* bound: the transport of other accepted and that of mqtt was not called.
C31_Witness ==
  /\ api.op = "fire"
  /\ api.target = "C"
  /\ {"other", "mqtt"} \subseteq transports
  /\ api.result.via = Some("other")
  /\ api.result.tried = <<"other">>

\* C32: in one fire_group call no peer is in the peer set of two successful
\* transport.fire_group calls, whatever accesses the peers have and in
\* whatever order they are iterated.
C32_CoveredOnce ==
  api.op = "fire_group" =>
    \A i, j \in 1..Len(api.result.covered) :
      i # j => api.result.covered[i].peers \cap api.result.covered[j].peers = {}

\* C33: whenever reply has had a transport transmit the reply, directly or
\* by the fallback to fire, the replies-to that the transport gives the
\* message is the uid of the original.
C33_RepliesTo ==
  (api.op = "reply" /\ api.result.via # None) =>
    api.result.parent = Some(api.message.uid)

\* The bound listeners that declare a filter matching the subject.
Matching(subject) ==
  {l \in DOMAIN listeners : \E f \in listeners[l] : match(f, subject)}

\* C34: for a message that reaches the listeners, herald_message is enqueued
\* exactly once for every bound listener that has a filter matching the
\* subject, however many of its filters match, and for no other listener.
C34_NotifiedOnce ==
  [][\A m \in Deliveries :
       (handed' # handed /\ HandleMessagePool(m)) =>
         LET new == SubSeq(pool_queue', Len(pool_queue) + 1, Len(pool_queue'))
         IN /\ handled'.enqueued = Matching(m.subject)
            /\ \A l \in Services :
                 Cardinality({i \in 1..Len(new) : new[i] = Task(l, m)})
                   = IF l \in Matching(m.subject) THEN 1 ELSE 0
            /\ \A i \in 1..Len(new) : new[i].uid = m.uid
    ]_vars

\* The message demo/echo was handed over while l1 declared two filters that
\* match it and l2 a filter that matches it and one that does not: each has
\* one task in the queue of the pool.
C34_Witness ==
  /\ DOMAIN listeners = {"l1", "l2"}
  /\ listeners["l1"] = {<<"demo", "*">>, <<"demo", "echo">>}
  /\ listeners["l2"] = {<<"demo", "echo">>, <<"nobody", "*">>}
  /\ handled.subject = DemoEcho
  /\ handled.enqueued = {"l1", "l2"}
  /\ Len(pool_queue) = 2

\* C35: the registry maps each pattern to the bound listeners whose declared
\* filters hold it, and only the patterns that some bound listener declares
\* are kept.
C35_Registry ==
  msg_listeners =
    [p \in UNION {listeners[l] : l \in DOMAIN listeners} |->
       {l \in DOMAIN listeners : p \in listeners[l]}]

\* l1, which was bound with demo/*, now declares demo/echo alone and shares
\* it with l2: the filter that l1 dropped is no longer in the registry.
C35_Witness ==
  /\ DOMAIN listeners = {"l1", "l2"}
  /\ listeners["l1"] = {<<"demo", "echo">>}
  /\ listeners["l2"] = {<<"demo", "echo">>, <<"nobody", "*">>}
  /\ msg_listeners[<<"demo", "echo">>] = {"l1", "l2"}
  /\ <<"demo", "*">> \notin DOMAIN msg_listeners

\* C36: a herald/directory/newcomer message is answered: the handler
\* returns and a reply of subject herald/directory/welcome has been made.
C36_NewcomerWelcomed ==
  handled.subject = DirNewcomer =>
    /\ handled.result # "TypeError"
    /\ \E i \in 1..Len(handled.replies) :
         handled.replies[i].subject = DirWelcome

\* The place of the first call of the client that satisfies the test, 0
\* when there is none.
ConnAt(op, topic) ==
  LET found == {i \in 1..Len(conn) : conn[i].op = op /\ conn[i].topic = topic}
  IN IF found = {} THEN 0 ELSE CHOOSE i \in found : \A j \in found : i <= j

\* C37: once the callback of a connection has run, the last will on the
\* rip topic with the uid of the peer was set before the connection was
\* opened, every subscription (uid topic, group all, rip topic, each local
\* group) was requested before herald/discovery/step1 was published to the
\* group all, and the access was set before the dump taken for step 1.
C37_ConnectOrder ==
  ConnAt("set_access", <<>>) > 0 =>
    LET published == ConnAt("publish", make_group_topic(LocalPeer, <<"all">>))
    IN /\ ConnAt("will_set", WILL_TOPIC(LocalPeer)) > 0
       /\ conn[ConnAt("will_set", WILL_TOPIC(LocalPeer))].payload = LocalUid
       /\ ConnAt("will_set", WILL_TOPIC(LocalPeer)) < ConnAt("connect", <<>>)
       /\ ConnAt("set_access", <<>>) < ConnAt("dump", <<>>)
       /\ published > 0
       /\ conn[published].payload = DiscoveryStep1
       /\ ConnAt("dump", <<>>) < published
       /\ \A topic \in Subscriptions(LocalUid, LocalPeer) :
            /\ ConnAt("subscribe", topic) > 0
            /\ ConnAt("subscribe", topic) < published

\* C38: a reply handled at any moment after the transport was given the
\* message, even before fire returns or before send waits, finds the
\* waiter that send or post registered before calling fire: it sets the
\* event of the send, or reaches the async-waiter of the post unless an
\* earlier reply consumed it; and a send whose event a reply has set
\* returns that reply and does not time out.
C38_NoLostReply ==
  [][/\ \A m \in RaceReplies :
          HandleMessage(m, {}, {}) =>
            LET u == m.reply_to[1]
            IN /\ (pc[u] \in {"send_fire", "send_wait"} /\ ~cell[u].isSet)
                    => /\ cell'[u] = EventSet(Some(m))
                       /\ u \notin waiting_events'
               /\ pc[u] \in {"post_fire", "post_done"}
                    => \/ [msg |-> m] \in inflight'
                       \/ /\ wpost[u].forget_on_first
                          /\ u \notin waiting_posts
                          /\ wpost[u].errback => calls[u] # <<>>
     /\ \A u \in SendUIDs :
          (/\ pc[u] \in {"send_fire", "send_wait"}
           /\ cell[u].isSet
           /\ pc'[u] \in {"send_finally", "send_done"})
            => /\ outcome'[u] = Some(Returned(cell[u].data))
               /\ ~IsNone(cell[u].data)
               /\ cell[u].data[1].reply_to = Some(u)]_vars

\* The reply to u1 was handled before fire returned to send: the event is
\* set with it while send has not begun to wait.
C38_Witness ==
  /\ pc["u1"] = "send_fire"
  /\ cell["u1"].isSet
  /\ resolver["u1"] = "reply"
  /\ "u1" \notin waiting_events

\* C39: a send with no timeout that is in progress when the shutdown has
\* completed, whenever it registered its waiter, eventually returns or
\* raises.
C39_SendReturns ==
  \A u \in UIDs :
    (engine = "stopped" /\ pc[u] \in {"send_fire", "send_wait", "send_finally"})
      ~> (pc[u] = "send_done")

\* C40: the engine that handles a herald/error/<kind> message of three
\* subject parts transmits nothing, so between peers that have no
\* listener one message of an application, a newcomer or a welcome among
\* them, causes at most one more transmission, each delivery leaves fewer
\* messages to deliver unless it answers a message that is not an error,
\* and in the end nothing is left to deliver.
C40_NoCascade ==
  /\ [][\A item \in broker :
          (/\ IsErrorMessage(FromPayload(item.payload))
           /\ LocalHandles(item) \/ PeerHandles(item))
            => /\ transmitted' = transmitted
               /\ broker' = broker \ {item}]_vars
  /\ [](transmitted <= 2)
  /\ [][transmitted > 0
          => \/ Cardinality(broker') < Cardinality(broker)
             \/ transmitted' > transmitted]_vars
  /\ (transmitted > 0) ~> (broker = {})

\* Peer B, which has no listener, was sent a message by the local peer
\* and answered with herald/error/no-listener; the local engine has handled
\* that error and nothing is left to deliver.
C40_Witness ==
  /\ transmitted = 2
  /\ handled.subject = ErrNoListener
  /\ handled.replies = <<>>
  /\ routed.client = LocalUid
  /\ broker = {}

====
